---- MODULE Spec2Model ----
(***************************************************************************)
(* A model of go-artisan's migration engine (migration/migration.go):      *)
(* the migrations ledger, the migration_lock row, the Migrate, AutoMigrate *)
(* and Rollback runs of concurrent processes, each database call one step. *)
(***************************************************************************)
EXTENDS Integers, Sequences, FiniteSets, TLC

\* ------------------------------------------------------------------ bounds
\* Number of times the two variants of a run are started side by side.
MaxPairRuns == 3

\* Number of seeder runs (RunWithTracking, AutoSeed) started in one behaviour.
MaxSeedRuns == 3

\* Length, in tokens, of the texts handed to parseMigrationSQL on its own.
MaxTextLen == 5

\* Number of runs (Migrate, AutoMigrate, Rollback) started in one behaviour.
MaxRuns == 3

\* Number of runs started in one behaviour when runs of different processes
\* may overlap.
MaxOverlapRuns == 2

\* The processes that may run the tool against the same database.
Procs == {"p1", "p2"}

\* ------------------------------------------------------- strings and files
\* A string is a sequence of one-character strings; CharOrd is the byte value
\* that sort.Strings compares.
CharOrd == [c \in {".", "1", "2", "a", "b", "d", "g", "o"} |->
              CASE c = "." -> 46 [] c = "1" -> 49 [] c = "2" -> 50
                [] c = "a" -> 97 [] c = "b" -> 98 [] c = "d" -> 100
                [] c = "g" -> 103 [] c = "o" -> 111]

\* The migration files a developer may put in the migrations directory.
MigrationNames == {<<"1", "a">>, <<"1", "b">>, <<"2">>}
\* Entries that are always in the directory and that discovery must skip:
\* a hidden file, an old-format program-source file, and a sub-directory.
HiddenName == <<".", "a">>
GoName == <<"1", ".", "g", "o">>
DirName == <<"d">>

\* The text of a file, as a sequence of tokens: the markers "UP" (--UP--) and
\* "DOWN" (--DOWN--), the separator ";", whitespace "ws", a line comment
\* "cmt" (-- ...) and SQL words.  File 1b has the layout of the README's
\* complex migration: a comment line, then a statement, then more statements.
Content(name) ==
  CASE name = <<"1", "a">> ->
         <<"cmt", "ws", "UP", "ws", "create_a", ";", "ws", "index_a", ";", "ws",
           "DOWN", "ws", "drop_index_a", ";", "ws", "drop_a", ";", "ws">>
    [] name = <<"1", "b">> ->
         <<"UP", "ws", "cmt", "ws", "create_b", ";", "ws", "index_b", ";", "ws",
           "DOWN", "ws", "drop_b", ";">>
    [] name = <<"2">> ->
         <<"UP", "ws", "create_c", ";">>
    [] OTHER -> <<"cmt">>

\* The files whose text a developer may rewrite, and the rewritten text: the
\* DOWN section is cut off, marker included.
Editable == {<<"1", "b">>}

Rewritten(name) ==
  IF name = <<"1", "b">>
    THEN <<"UP", "ws", "cmt", "ws", "create_b", ";", "ws", "index_b", ";", "ws">>
    ELSE Content(name)

\* strings.HasPrefix / strings.HasSuffix on sequences.
HasPrefix(s, pre) ==
  /\ Len(s) >= Len(pre)
  /\ SubSeq(s, 1, Len(pre)) = pre

HasSuffix(s, suf) ==
  /\ Len(s) >= Len(suf)
  /\ SubSeq(s, Len(s) - Len(suf) + 1, Len(s)) = suf

\* The comparison of sort.Strings turned around.
RECURSIVE StrGreater(_, _)
StrGreater(s, t) ==
  IF t = <<>> THEN s # <<>>
  ELSE IF s = <<>> THEN FALSE
  ELSE IF CharOrd[Head(s)] # CharOrd[Head(t)] THEN CharOrd[Head(s)] > CharOrd[Head(t)]
  ELSE StrGreater(Tail(s), Tail(t))

\* Byte-wise lexicographic order of two strings (the order of sort.Strings).
RECURSIVE StrLess(_, _)
StrLess(s, t) ==
  IF s = <<>> THEN t # <<>>
  ELSE IF t = <<>> THEN FALSE
  ELSE IF CharOrd[Head(s)] # CharOrd[Head(t)] THEN CharOrd[Head(s)] < CharOrd[Head(t)]
  ELSE StrLess(Tail(s), Tail(t))

\* sort.Strings: the elements of a set of strings in ascending order.
RECURSIVE SortStrings(_)
SortStrings(S) ==
  IF S = {} THEN <<>>
  ELSE LET m == CHOOSE x \in S : \A y \in S \ {x} : StrLess(x, y)
       IN <<m>> \o SortStrings(S \ {m})

\* getMigrationFiles: the directory listing without directories, hidden
\* files and *.go files, sorted.
getMigrationFiles(entries) ==
  SortStrings({n \in entries :
                 /\ n # DirName
                 /\ ~HasPrefix(n, <<".">>)
                 /\ ~HasSuffix(n, <<".", "g", "o">>)})

\* ------------------------------------------------------------------ parser
\* strings.Index for a one-token marker: 1-based index of the first
\* occurrence, 0 when absent (Go's -1).
RECURSIVE IndexFrom(_, _, _)
IndexFrom(text, tok, i) ==
  IF i > Len(text) THEN 0
  ELSE IF text[i] = tok THEN i
  ELSE IndexFrom(text, tok, i + 1)

Index(text, tok) == IndexFrom(text, tok, 1)

\* strings.TrimSpace.
RECURSIVE TrimLeft(_)
TrimLeft(s) == IF s # <<>> /\ Head(s) = "ws" THEN TrimLeft(Tail(s)) ELSE s

RECURSIVE TrimRight(_)
TrimRight(s) ==
  IF s # <<>> /\ s[Len(s)] = "ws" THEN TrimRight(SubSeq(s, 1, Len(s) - 1)) ELSE s

\* TrimSpace that trims the left end only.
TrimSpaceLeftOnly(s) == TrimLeft(s)

TrimSpace(s) == TrimRight(TrimLeft(s))

\* strings.Split(s, ";"): the fragments between separators (always at least one).
RECURSIVE Split(_)
Split(s) ==
  LET k == Index(s, ";")
  IN IF k = 0 THEN <<s>>
     ELSE <<SubSeq(s, 1, k - 1)>> \o Split(SubSeq(s, k + 1, Len(s)))

\* strings.HasPrefix(stmt, "--") on tokens: a comment begins with "--", and so
\* do the texts of the two markers, --UP-- and --DOWN--.
DashPrefixed(stmt) == Head(stmt) \in {"cmt", "UP", "DOWN"}

\* The filter loop of parseMigrationSQL: trimmed fragments that are neither
\* empty nor begin with "--".
RECURSIVE FilterStatements(_)
FilterStatements(frags) ==
  IF frags = <<>> THEN <<>>
  ELSE LET stmt == TrimSpace(Head(frags))
       IN (IF stmt # <<>> /\ ~DashPrefixed(stmt) THEN <<stmt>> ELSE <<>>)
            \o FilterStatements(Tail(frags))

\* parseMigrationSQL that takes a missing --DOWN-- marker for an empty DOWN
\* section at the end of the file.
parseMigrationSQLLenient(text, isUp) ==
  LET upIndex == Index(text, "UP")
      downIndex == IF Index(text, "DOWN") = 0 THEN Len(text) + 1 ELSE Index(text, "DOWN")
  IN IF upIndex = 0 THEN [err |-> "parse", stmts |-> <<>>]
     ELSE IF isUp /\ upIndex + 1 > downIndex THEN [err |-> "panic", stmts |-> <<>>]
     ELSE LET sql == IF isUp THEN SubSeq(text, upIndex + 1, downIndex - 1)
                     ELSE SubSeq(text, downIndex + 1, Len(text))
          IN [err |-> "none", stmts |-> FilterStatements(Split(TrimSpace(sql)))]

\* parseMigrationSQL on the text of a file: err is "none", "parse" (a marker
\* is missing) or "panic" (slice bounds out of range: the DOWN marker before
\* the UP marker).
parseMigrationSQL(text, isUp) ==
  LET upIndex == Index(text, "UP")
      downIndex == Index(text, "DOWN")
  IN IF upIndex = 0 \/ downIndex = 0 THEN [err |-> "parse", stmts |-> <<>>]
     ELSE IF isUp /\ upIndex + 1 > downIndex THEN [err |-> "panic", stmts |-> <<>>]
     ELSE LET sql == IF isUp THEN SubSeq(text, upIndex + 1, downIndex - 1)
                     ELSE SubSeq(text, downIndex + 1, Len(text))
          IN [err |-> "none", stmts |-> FilterStatements(Split(TrimSpace(sql)))]

\* The tokens of a text that are SQL.
Layout == {"UP", "DOWN", ";", "ws", "cmt"}
SqlWords(text) == {text[i] : i \in 1..Len(text)} \ Layout

\* Every statement some migration file can yield, and every statement
\* written in one.
AllStmts ==
  LET texts == {Content(n) : n \in MigrationNames} \cup {Rewritten(n) : n \in MigrationNames}
  IN UNION {{parseMigrationSQL(text, up).stmts[i] :
               i \in 1..Len(parseMigrationSQL(text, up).stmts)} :
            text \in texts, up \in BOOLEAN}
       \cup UNION {{<<w>> : w \in SqlWords(text)} : text \in texts}

\* ------------------------------------------------------------- seed files
\* The seed files a developer may put in the seeders directory.
SeedNames == {<<"a">>, <<"b">>}

\* The suffix of the name of a seed file made by make:seeder.
SeederSuffix == <<"_", "s", "e", "e", "d", "e", "r">>

\* The lines of getSeederTemplate of the seeder: a comment header, an empty
\* line, six comment lines and an empty line.
getSeederTemplate ==
  << <<"cmt">>, <<>>, <<"cmt">>, <<"cmt">>, <<"cmt">>, <<"cmt">>, <<"cmt">>, <<>> >>

\* The text of a seed file, as a sequence of lines of tokens: file a has the
\* comment header of getSeederTemplate, a blank line and two INSERT lines; a
\* file written by make:seeder holds the text of getSeederTemplate.
SeedContent(name) ==
  IF name = <<"a">>
    THEN << <<"cmt">>, <<"ws">>, <<"ins_a1", ";">>, <<"ws", "cmt">>, <<"ins_a2", ";", "ws">> >>
  ELSE IF HasSuffix(name, SeederSuffix)
    THEN getSeederTemplate
    ELSE << <<"ins_b", ";">> >>

\* The first loop of parseSeederSQL and strings.Join(sqlLines, "\n"): the
\* lines that are neither blank nor a comment, with a newline between them.
RECURSIVE JoinSqlLines(_)
JoinSqlLines(lines) ==
  IF lines = <<>> THEN <<>>
  ELSE LET trimmed == TrimSpace(Head(lines))
           tail == JoinSqlLines(Tail(lines))
       IN IF trimmed = <<>> \/ Head(trimmed) = "cmt" THEN tail
          ELSE IF tail = <<>> THEN Head(lines)
          ELSE Head(lines) \o <<"ws">> \o tail

\* The last loop of parseSeederSQL: the trimmed fragments that are not empty.
RECURSIVE NonEmptyStatements(_)
NonEmptyStatements(frags) ==
  IF frags = <<>> THEN <<>>
  ELSE LET stmt == TrimSpace(Head(frags))
       IN (IF stmt # <<>> THEN <<stmt>> ELSE <<>>) \o NonEmptyStatements(Tail(frags))

\* parseSeederSQL on the lines of a file.
parseSeederSQL(lines) == NonEmptyStatements(Split(TrimSpace(JoinSqlLines(lines))))

AllSeedStmts ==
  UNION {{parseSeederSQL(SeedContent(n))[i] : i \in 1..Len(parseSeederSQL(SeedContent(n)))} :
         n \in SeedNames}

\* ------------------------------------------------------------------- state
VARIABLES
  dir,          \* the entries of the migrations directory
  tablesExist,  \* the migrations and migration_lock tables exist
  lockRows,     \* number of rows of migration_lock (the first has id = 1)
  lock,         \* the migration_lock row with id = 1: locked, locked_at, locked_by
  ledger,       \* the rows of table migrations: records id, name, batch
  nextId,       \* the next auto-increment id of table migrations
  executed,     \* per statement, how many committed executions it has had
  proc,         \* per process: the position and locals of its current run
  runs,         \* number of runs started so far
  concurrent,   \* whether runs of different processes may overlap
  edited,       \* the files of the directory whose text has been rewritten
  parse,        \* a text handed to parseMigrationSQL, and what the calls returned
  seedDir,      \* the entries of the seeders directory
  seedersTable, \* the seeders table exists
  seeders,      \* the rows of table seeders: records id, name
  seedNextId,   \* the next auto-increment id of table seeders
  seedExec,     \* per seed statement, how many committed executions it has had
  sproc,        \* per process: the position and locals of its current seeder run
  seedRuns,     \* number of seeder runs started so far
  pair,         \* two databases side by side: Migrate on one, AutoMigrate on the other
  spair,        \* likewise for RunWithTracking and AutoSeed
  dialect       \* a Migration value: the driver it was built with, what it generated

\* The state of the seeder.
seedVars == <<seedDir, seedersTable, seeders, seedNextId, seedExec, sproc, seedRuns>>

\* The state that the migration engine and the directory leave alone.
aux == <<parse, seedVars, pair, spair, dialect>>

\* The state that the runs of the migration engine leave alone.
rest == <<edited, aux>>

vars == <<dir, tablesExist, lockRows, lock, ledger, nextId, executed, proc,
          runs, concurrent, rest>>

NoFile == <<>>

\* The text of a file of the directory.
Text(name) == IF name \in edited THEN Rewritten(name) ELSE Content(name)

\* ParseFile that takes the other section of the file.
ParseFileOtherSection(entries, name, isUp) ==
  IF name \notin entries THEN [err |-> "read", stmts |-> <<>>]
  ELSE parseMigrationSQL(Text(name), ~isUp)

\* os.ReadFile followed by parseMigrationSQL: a file that is not in the
\* directory gives a read error.
ParseFile(entries, name, isUp) ==
  IF name \notin entries THEN [err |-> "read", stmts |-> <<>>]
  ELSE parseMigrationSQL(Text(name), isUp)

\* The lock row as INSERT INTO migration_lock (locked) VALUES (0) and
\* releaseLock leave it, and as acquireLock's UPDATE leaves it.
Unlocked == [locked |-> FALSE, locked_at |-> "NULL", locked_by |-> "NULL"]
Locked == [locked |-> TRUE, locked_at |-> "CURRENT_TIMESTAMP", locked_by |-> "go-artisan"]
NoRow == [id |-> 0, name |-> NoFile, batch |-> 0]

Ret(kind, file) == [kind |-> kind, file |-> file]

\* The locals of a run that has not started.
IdleProc ==
  [pc |-> "idle", op |-> "none", cnt |-> 0, migrated |-> {}, batch |-> 0,
   files |-> <<>>, i |-> 0, stmts |-> <<>>, si |-> 0, txStmts |-> <<>>,
   txRow |-> NoRow, ret |-> Ret("none", NoFile),
   startLedger |-> {}, startExec |-> [s \in AllStmts |-> 0], startDir |-> {},
   ran |-> <<>>, out |-> <<>>,
   cmd |-> "none", steps |-> 0, call |-> 0, cmdLedger |-> {}]

Quiet(p) == proc[p].pc \in {"idle", "done"}

\* The locals of a seeder run that has not started.
IdleSeedProc ==
  [pc |-> "idle", op |-> "none", seeded |-> {}, files |-> <<>>, i |-> 0,
   stmts |-> <<>>, si |-> 0, txStmts |-> <<>>, ret |-> Ret("none", NoFile),
   startSeeders |-> {}, startExec |-> [s \in AllSeedStmts |-> 0], startDir |-> {}]

SeedQuiet(p) == sproc[p].pc \in {"idle", "done"}

\* A database and the locals of one run against it, as one record: a fresh
\* database, no run started.
IdleWorld ==
  [pc |-> "idle", tablesExist |-> FALSE, lockRows |-> 0, lock |-> Unlocked,
   ledger |-> {}, nextId |-> 1, executed |-> [s \in AllStmts |-> 0],
   migrated |-> {}, batch |-> 0, files |-> <<>>, i |-> 0, stmts |-> <<>>, si |-> 0,
   txStmts |-> <<>>, txRow |-> NoRow, ret |-> Ret("none", NoFile)]

\* The same for the seeder.
IdleSeedWorld ==
  [pc |-> "idle", seedersTable |-> FALSE, seeders |-> {}, seedNextId |-> 1,
   seedExec |-> [s \in AllSeedStmts |-> 0],
   seeded |-> {}, files |-> <<>>, i |-> 0, stmts |-> <<>>, si |-> 0,
   txStmts |-> <<>>, ret |-> Ret("none", NoFile)]

\* The entries that are in every directory state.
FixedEntries == {HiddenName, GoName, DirName}

\* No Migration value and no Seeder value built yet.
NoDialect ==
  [env |-> "", dbNil |-> FALSE, position |-> 1, driver |-> "unset",
   ph |-> <<>>, ddl |-> "none", lockDdl |-> "none", tmpl |-> "none",
   select1 |-> TRUE, version |-> "other",
   sdriver |-> "unset", sddl |-> "none", sph |-> <<>>]

\* No text handed to the parser.
NotParsed == [err |-> "not_called", stmts |-> <<>>]
NoParse == [text |-> <<>>, up |-> NotParsed, down |-> NotParsed]

InitAll(conc, pr, dl) ==
  /\ dir = FixedEntries
  /\ tablesExist = FALSE
  /\ lockRows = 0
  /\ lock = Unlocked
  /\ ledger = {}
  /\ nextId = 1
  /\ executed = [s \in AllStmts |-> 0]
  /\ proc = [p \in Procs |-> IdleProc]
  /\ runs = 0
  /\ concurrent = conc
  /\ edited = {}
  /\ parse = pr
  /\ seedDir = FixedEntries
  /\ seedersTable = FALSE
  /\ seeders = {}
  /\ seedNextId = 1
  /\ seedExec = [s \in AllSeedStmts |-> 0]
  /\ sproc = [p \in Procs |-> IdleSeedProc]
  /\ seedRuns = 0
  /\ pair = [a |-> IdleWorld, b |-> IdleWorld, runs |-> 0]
  /\ spair = [a |-> IdleSeedWorld, b |-> IdleSeedWorld, runs |-> 0]
  /\ dialect = dl

InitWith(conc, pr) == InitAll(conc, pr, NoDialect)

\* Runs of several processes against one database, in any interleaving.
Init == InitWith(TRUE, NoParse)
\* Runs that never overlap: a run starts only when no other is under way.
SeqInit == InitWith(FALSE, NoParse)

\* The process that issues the commands when runs do not overlap.
Operator == "p1"

MayStart(p) ==
  /\ Quiet(p)
  /\ concurrent \/ p = Operator

\* ------------------------------------------------------------ ledger reads
Max(S) == CHOOSE x \in S : \A y \in S : y <= x

\* The rows WHERE migration = n.
RowsNamed(rows, n) == {r \in rows : r.name = n}

\* A ledger read that leaves out the files whose text has been rewritten.
getMigratedUnchanged(rows) == {r.name : r \in rows} \ edited

\* SELECT migration FROM migrations.
getMigrated(rows) == {r.name : r \in rows}

\* getNextBatch without the increment.
getNextBatchNoIncrement(rows) == IF rows = {} THEN 1 ELSE Max({r.batch : r \in rows})

\* SELECT MAX(batch): MAX+1, or 1 when the table is empty.
getNextBatch(rows) == IF rows = {} THEN 1 ELSE Max({r.batch : r \in rows}) + 1

\* getLastBatch that selects MIN(batch).
getLastBatchLowest(rows) ==
  IF rows = {} THEN 0 ELSE CHOOSE b \in {r.batch : r \in rows} : \A r \in rows : b <= r.batch

\* SELECT MAX(batch): MAX, or 0 when the table is empty.
getLastBatch(rows) == IF rows = {} THEN 0 ELSE Max({r.batch : r \in rows})

\* SELECT migration ... WHERE batch = b ORDER BY id DESC.
RECURSIVE NamesByIdDesc(_)
NamesByIdDesc(rows) ==
  IF rows = {} THEN <<>>
  ELSE LET top == CHOOSE r \in rows : \A q \in rows : q.id <= r.id
       IN <<top.name>> \o NamesByIdDesc(rows \ {top})

\* getBatchMigrations without its WHERE clause.
getBatchMigrationsAll(rows, b) == NamesByIdDesc(rows)

getBatchMigrations(rows, b) == NamesByIdDesc({r \in rows : r.batch = b})

\* deleteMigration without its WHERE clause.
deleteMigrationNoWhere(rows, name) == {}

\* DELETE FROM migrations WHERE migration = name.
deleteMigration(rows, name) == {r \in rows : r.name # name}

\* The effect of committing the statements of a transaction.
RECURSIVE Apply(_, _)
Apply(ex, stmts) ==
  IF stmts = <<>> THEN ex
  ELSE Apply([ex EXCEPT ![Head(stmts)] = @ + 1], Tail(stmts))

\* contains that never finds the name.
containsNever(migrated, name) == FALSE

\* The loop without its test of contains(migrated, name).
NextPendingNoSkip(files, migrated, i) == i

\* contains(migrated, name), and the position of the first file at or after
\* position i that is not in migrated (Len + 1 when there is none).
contains(migrated, name) == name \in migrated

RECURSIVE NextPending(_, _, _)
NextPending(files, migrated, i) ==
  IF i > Len(files) THEN i
  ELSE IF contains(migrated, files[i]) THEN NextPending(files, migrated, i + 1)
  ELSE i

Set(p, f) == proc' = [proc EXCEPT ![p] = f]

DBUnchanged == UNCHANGED <<tablesExist, lockRows, lock, ledger, nextId, executed>>

\* ------------------------------------------------------------- environment
\* The locals of the runs that have returned are dead values: they are
\* dropped when the directory changes.
Forget == proc' = [q \in Procs |-> IdleProc]

\* A developer adds a migration file to the directory, or prunes one, while
\* no command is running.
AddFile(n) ==
  /\ n \in MigrationNames \ dir
  /\ \A q \in Procs : Quiet(q)
  /\ dir' = dir \cup {n}
  /\ Forget
  /\ UNCHANGED <<runs, concurrent, rest>>
  /\ DBUnchanged

RemoveFile(n) ==
  /\ n \in MigrationNames \cap dir
  /\ \A q \in Procs : Quiet(q)
  /\ dir' = dir \ {n}
  /\ edited' = edited \ {n}
  /\ Forget
  /\ UNCHANGED <<runs, concurrent, aux>>
  /\ DBUnchanged

\* A developer rewrites a file of the directory.
EditFile(n) ==
  /\ n \in (Editable \cap dir) \ edited
  /\ \A q \in Procs : Quiet(q)
  /\ edited' = edited \cup {n}
  /\ Forget
  /\ UNCHANGED <<dir, runs, concurrent, aux>>
  /\ DBUnchanged

\* A process calls Migrate, AutoMigrate or Rollback.
Start(p, op) ==
  /\ MayStart(p)
  /\ runs < (IF concurrent THEN MaxOverlapRuns ELSE MaxRuns)
  /\ runs' = runs + 1
  /\ Set(p, [IdleProc EXCEPT !.pc = IF op = "Rollback" THEN "rb_last" ELSE "ensure",
                             !.op = op,
                             !.startLedger = ledger,
                             !.startDir = dir,
                             !.startExec = executed])
  /\ UNCHANGED <<dir, concurrent, rest>>
  /\ DBUnchanged

\* A run holds the lock from the UPDATE of acquireLock to the deferred
\* releaseLock.
Holding(p) == proc[p].pc \in {"migrated", "batch", "files", "loop", "exec", "commit", "release"}

\* The process is killed while its run holds the lock: an open transaction
\* is rolled back by the database, no deferred call runs.
Crash(p) ==
  /\ Holding(p)
  /\ Set(p, [IdleProc EXCEPT !.pc = "done", !.op = proc[p].op,
                             !.ret = Ret("crash", NoFile),
                             !.batch = proc[p].batch,
                             !.startLedger = proc[p].startLedger,
                             !.startExec = proc[p].startExec,
                             !.startDir = proc[p].startDir])
  /\ UNCHANGED <<dir, runs, concurrent, rest>>
  /\ DBUnchanged

\* Where a caller of EnsureMigrationsTable goes on after it returned nil.
AfterEnsure(op) ==
  IF op = "DryRun" THEN "dr_migrated"
  ELSE IF op = "Status" THEN "st_files"
  ELSE "acquire"

\* ------------------------------------------------- Migrate and AutoMigrate
\* EnsureMigrationsTable that re-creates the lock row as free on every call.
EnsureMigrationsTableResetLock(p) ==
  /\ proc[p].pc = "ensure"
  /\ tablesExist' = TRUE
  /\ lock' = Unlocked
  /\ Set(p, [proc[p] EXCEPT !.cnt = lockRows,
                            !.pc = IF lockRows = 0 THEN "ensure_insert"
                                   ELSE AfterEnsure(proc[p].op)])
  /\ UNCHANGED <<dir, lockRows, ledger, nextId, executed, runs, concurrent, rest>>

\* EnsureMigrationsTable: CREATE TABLE IF NOT EXISTS for both tables, then
\* ensureLockTable's SELECT COUNT(*) FROM migration_lock.
EnsureMigrationsTable(p) ==
  /\ proc[p].pc = "ensure"
  /\ tablesExist' = TRUE
  /\ Set(p, [proc[p] EXCEPT !.cnt = lockRows,
                            !.pc = IF lockRows = 0 THEN "ensure_insert"
                                   ELSE AfterEnsure(proc[p].op)])
  /\ UNCHANGED <<dir, lockRows, lock, ledger, nextId, executed, runs, concurrent, rest>>

\* ensureLockTable: count == 0, so INSERT INTO migration_lock (locked) VALUES (0).
ensureLockTable(p) ==
  /\ proc[p].pc = "ensure_insert"
  /\ lockRows' = lockRows + 1
  /\ Set(p, [proc[p] EXCEPT !.pc = AfterEnsure(proc[p].op)])
  /\ UNCHANGED <<dir, tablesExist, lock, ledger, nextId, executed, runs, concurrent, rest>>

\* acquireLock without the test of the value read.
acquireLockReadNoCheck(p) ==
  /\ proc[p].pc = "acquire"
  /\ Set(p, IF lockRows = 0
              THEN [proc[p] EXCEPT !.pc = "done", !.ret = Ret("lock_check", NoFile)]
            ELSE [proc[p] EXCEPT !.pc = "acquire_update"])
  /\ UNCHANGED <<dir, runs, concurrent, rest>>
  /\ DBUnchanged

\* acquireLock, first half: SELECT locked FROM migration_lock WHERE id = 1,
\* and the return with the 'already running' error when it reads 1. That
\* return comes before the defer of releaseLock, so nothing is released.
acquireLockRead(p) ==
  /\ proc[p].pc = "acquire"
  /\ Set(p, IF lockRows = 0
              THEN [proc[p] EXCEPT !.pc = "done", !.ret = Ret("lock_check", NoFile)]
            ELSE IF lock.locked
              THEN [proc[p] EXCEPT !.pc = "done", !.ret = Ret("already_running", NoFile)]
            ELSE [proc[p] EXCEPT !.pc = "acquire_update"])
  /\ UNCHANGED <<dir, runs, concurrent, rest>>
  /\ DBUnchanged

\* acquireLock, second half: UPDATE migration_lock SET locked = 1 WHERE id = 1;
\* when the UPDATE fails the run returns without having deferred releaseLock.
acquireLockUpdate(p) ==
  /\ proc[p].pc = "acquire_update"
  /\ \E ok \in BOOLEAN :
       IF ok
         THEN /\ lock' = Locked
              /\ Set(p, [proc[p] EXCEPT !.pc = "migrated"])
         ELSE /\ lock' = lock
              /\ Set(p, [proc[p] EXCEPT !.pc = "done", !.ret = Ret("acquire", NoFile)])
  /\ UNCHANGED <<dir, tablesExist, lockRows, ledger, nextId, executed, runs, concurrent, rest>>

\* m.getMigrated(): the names in the ledger, or an error.
MigrateGetMigrated(p) ==
  /\ proc[p].pc = "migrated"
  /\ \E ok \in BOOLEAN :
       Set(p, IF ok
                THEN [proc[p] EXCEPT !.migrated = getMigrated(ledger), !.pc = "batch"]
                ELSE [proc[p] EXCEPT !.pc = "release", !.ret = Ret("migrated_list", NoFile)])
  /\ UNCHANGED <<dir, runs, concurrent, rest>>
  /\ DBUnchanged

\* m.getNextBatch().
MigrateGetNextBatch(p) ==
  /\ proc[p].pc = "batch"
  /\ \E ok \in BOOLEAN :
       Set(p, IF ok
                THEN [proc[p] EXCEPT !.batch = getNextBatch(ledger), !.pc = "files"]
                ELSE [proc[p] EXCEPT !.pc = "release", !.ret = Ret("next_batch", NoFile)])
  /\ UNCHANGED <<dir, runs, concurrent, rest>>
  /\ DBUnchanged

\* m.getMigrationFiles(migrationsPath).
MigrateGetFiles(p) ==
  /\ proc[p].pc = "files"
  /\ \E ok \in BOOLEAN :
       Set(p, IF ok
                THEN [proc[p] EXCEPT !.files = getMigrationFiles(dir), !.i = 1, !.pc = "loop"]
                ELSE [proc[p] EXCEPT !.pc = "release", !.ret = Ret("files", NoFile)])
  /\ UNCHANGED <<dir, runs, concurrent, rest>>
  /\ DBUnchanged

\* The head of the loop over the files: skip the files in migrated; at the
\* end of the list return nil; else parse the file's UP section and begin a
\* transaction. A parse error returns; a panic unwinds through the deferred
\* releaseLock.
MigrateNextFile(p) ==
  /\ proc[p].pc = "loop"
  /\ LET k == NextPending(proc[p].files, proc[p].migrated, proc[p].i)
         name == proc[p].files[k]
         parsed == ParseFile(dir, name, TRUE)
     IN IF k > Len(proc[p].files)
          THEN Set(p, [proc[p] EXCEPT !.i = k, !.pc = "release", !.ret = Ret("ok", NoFile)])
        ELSE IF parsed.err = "panic"
          THEN Set(p, [proc[p] EXCEPT !.i = k, !.pc = "release", !.ret = Ret("panic", name)])
        ELSE IF parsed.err # "none"
          THEN Set(p, [proc[p] EXCEPT !.i = k, !.pc = "release", !.ret = Ret("parse", name)])
        ELSE \E ok \in BOOLEAN :
               Set(p, IF ok
                        THEN [proc[p] EXCEPT !.i = k, !.stmts = parsed.stmts, !.si = 1,
                                             !.txStmts = <<>>, !.txRow = NoRow, !.pc = "exec"]
                        ELSE [proc[p] EXCEPT !.i = k, !.pc = "release",
                                             !.ret = Ret("begin", name)])
  /\ UNCHANGED <<dir, runs, concurrent, rest>>
  /\ DBUnchanged

\* The statement loop with m.DB.Exec in place of tx.Exec: each statement is
\* committed as it runs.
MigrateExecNoTx(p) ==
  /\ proc[p].pc = "exec"
  /\ proc[p].si <= Len(proc[p].stmts)
  /\ \E ok \in BOOLEAN :
       IF ok
         THEN /\ executed' = Apply(executed, <<proc[p].stmts[proc[p].si]>>)
              /\ Set(p, [proc[p] EXCEPT !.si = @ + 1])
         ELSE /\ executed' = executed
              /\ Set(p, [proc[p] EXCEPT !.pc = "release",
                                        !.ret = Ret("run", proc[p].files[proc[p].i])])
  /\ UNCHANGED <<dir, tablesExist, lockRows, lock, ledger, nextId, runs, concurrent, rest>>

\* tx.Exec(stmt) for the next statement of the file; on an error tx.Rollback()
\* and return.
MigrateExec(p) ==
  /\ proc[p].pc = "exec"
  /\ proc[p].si <= Len(proc[p].stmts)
  /\ \E ok \in BOOLEAN :
       Set(p, IF ok
                THEN [proc[p] EXCEPT !.txStmts = Append(@, proc[p].stmts[proc[p].si]),
                                     !.si = @ + 1]
                ELSE [proc[p] EXCEPT !.txStmts = <<>>, !.pc = "release",
                                     !.ret = Ret("run", proc[p].files[proc[p].i])])
  /\ UNCHANGED <<dir, runs, concurrent, rest>>
  /\ DBUnchanged

\* The ledger insert through m.recordMigration, on the connection and not in
\* the transaction: the row is committed at once.
MigrateRecordOutsideTx(p) ==
  /\ proc[p].pc = "exec"
  /\ proc[p].si > Len(proc[p].stmts)
  /\ \E ok \in BOOLEAN :
       IF ok
         THEN /\ nextId' = nextId + 1
              /\ ledger' = ledger \cup {[id |-> nextId, name |-> proc[p].files[proc[p].i],
                                         batch |-> proc[p].batch]}
              /\ Set(p, [proc[p] EXCEPT !.txRow = [id |-> nextId,
                                                  name |-> proc[p].files[proc[p].i],
                                                  batch |-> proc[p].batch],
                                        !.pc = "commit"])
         ELSE /\ UNCHANGED <<nextId, ledger>>
              /\ Set(p, [proc[p] EXCEPT !.txStmts = <<>>, !.pc = "release",
                                        !.ret = Ret("record", proc[p].files[proc[p].i])])
  /\ UNCHANGED <<dir, tablesExist, lockRows, lock, executed, runs, concurrent, rest>>

\* tx.Exec(INSERT INTO migrations (migration, batch) ...) in the transaction;
\* the id is drawn when the row is inserted.
MigrateRecord(p) ==
  /\ proc[p].pc = "exec"
  /\ proc[p].si > Len(proc[p].stmts)
  /\ \E ok \in BOOLEAN :
       IF ok
         THEN /\ nextId' = nextId + 1
              /\ Set(p, [proc[p] EXCEPT !.txRow = [id |-> nextId,
                                                  name |-> proc[p].files[proc[p].i],
                                                  batch |-> proc[p].batch],
                                        !.pc = "commit"])
         ELSE /\ nextId' = nextId
              /\ Set(p, [proc[p] EXCEPT !.txStmts = <<>>, !.pc = "release",
                                        !.ret = Ret("record", proc[p].files[proc[p].i])])
  /\ UNCHANGED <<dir, tablesExist, lockRows, lock, ledger, executed, runs, concurrent, rest>>

\* tx.Commit(): the statements' effects and the ledger row become visible
\* together; on an error nothing of the transaction does.
MigrateCommit(p) ==
  /\ proc[p].pc = "commit"
  /\ \E ok \in BOOLEAN :
       IF ok
         THEN /\ executed' = Apply(executed, proc[p].txStmts)
              /\ ledger' = ledger \cup {proc[p].txRow}
              /\ Set(p, [proc[p] EXCEPT !.txStmts = <<>>, !.txRow = NoRow,
                                        !.ran = Append(@, proc[p].files[proc[p].i]),
                                        !.i = @ + 1, !.pc = "loop"])
         ELSE /\ UNCHANGED <<executed, ledger>>
              /\ Set(p, [proc[p] EXCEPT !.txStmts = <<>>, !.txRow = NoRow, !.pc = "release",
                                        !.ret = Ret("commit", proc[p].files[proc[p].i])])
  /\ UNCHANGED <<dir, tablesExist, lockRows, lock, nextId, runs, concurrent, rest>>

\* A release whose UPDATE matches no row.
releaseLockNoRow(p) ==
  /\ proc[p].pc = "release"
  /\ lock' = lock
  /\ Set(p, [proc[p] EXCEPT !.pc = "done"])
  /\ UNCHANGED <<dir, tablesExist, lockRows, ledger, nextId, executed, runs, concurrent, rest>>

\* The deferred m.releaseLock(): UPDATE migration_lock SET locked = 0 WHERE id = 1.
releaseLock(p) ==
  /\ proc[p].pc = "release"
  /\ lock' = Unlocked
  /\ Set(p, [proc[p] EXCEPT !.pc = "done"])
  /\ UNCHANGED <<dir, tablesExist, lockRows, ledger, nextId, executed, runs, concurrent, rest>>

\* ---------------------------------------------------------------- Rollback
\* A Rollback that begins with the lock test of acquireLock.
RollbackGetLastBatchLocked(p) ==
  /\ proc[p].pc = "rb_last"
  /\ \E ok \in BOOLEAN :
       LET b == getLastBatch(ledger)
       IN Set(p, IF lockRows > 0 /\ lock.locked
                   THEN [proc[p] EXCEPT !.pc = "done", !.ret = Ret("already_running", NoFile)]
                 ELSE IF ~ok \/ ~tablesExist
                   THEN [proc[p] EXCEPT !.pc = "done", !.ret = Ret("last_batch", NoFile)]
                 ELSE IF b = 0
                   THEN [proc[p] EXCEPT !.pc = "done", !.ret = Ret("ok", NoFile)]
                 ELSE [proc[p] EXCEPT !.batch = b, !.pc = "rb_list"])
  /\ UNCHANGED <<dir, runs, concurrent, rest>>
  /\ DBUnchanged

\* m.getLastBatch(): an error when the table does not exist or the query
\* fails; batch 0 returns nil at once.
RollbackGetLastBatch(p) ==
  /\ proc[p].pc = "rb_last"
  /\ \E ok \in BOOLEAN :
       LET b == getLastBatch(ledger)
       IN Set(p, IF ~ok \/ ~tablesExist
                   THEN [proc[p] EXCEPT !.pc = "done", !.ret = Ret("last_batch", NoFile)]
                 ELSE IF b = 0
                   THEN [proc[p] EXCEPT !.pc = "done", !.ret = Ret("ok", NoFile)]
                 ELSE [proc[p] EXCEPT !.batch = b, !.pc = "rb_list"])
  /\ UNCHANGED <<dir, runs, concurrent, rest>>
  /\ DBUnchanged

\* m.getBatchMigrations(batch); the loop then starts at i = len(files) - 1.
RollbackGetBatchMigrations(p) ==
  /\ proc[p].pc = "rb_list"
  /\ \E ok \in BOOLEAN :
       LET names == getBatchMigrations(ledger, proc[p].batch)
       IN Set(p, IF ok
                   THEN [proc[p] EXCEPT !.files = names, !.i = Len(names), !.pc = "rb_file"]
                   ELSE [proc[p] EXCEPT !.pc = "done", !.ret = Ret("batch_migrations", NoFile)])
  /\ UNCHANGED <<dir, runs, concurrent, rest>>
  /\ DBUnchanged

\* The loop head without the os.Stat test: a missing file goes to the parser.
RollbackNextFileNoStat(p) ==
  /\ proc[p].pc = "rb_file"
  /\ LET name == proc[p].files[proc[p].i]
         parsed == ParseFile(dir, name, FALSE)
     IN Set(p, IF proc[p].i < 1
                 THEN [proc[p] EXCEPT !.pc = "done", !.ret = Ret("ok", NoFile)]
               ELSE IF parsed.err # "none"
                 THEN [proc[p] EXCEPT !.pc = "done", !.ret = Ret("parse", name)]
               ELSE [proc[p] EXCEPT !.stmts = parsed.stmts, !.si = 1, !.pc = "rb_exec"])
  /\ UNCHANGED <<dir, runs, concurrent, rest>>
  /\ DBUnchanged

\* The head of the loop, for i := len(files) - 1; i >= 0; i--: os.Stat, then
\* the parse of the file's DOWN section.
RollbackNextFile(p) ==
  /\ proc[p].pc = "rb_file"
  /\ LET name == proc[p].files[proc[p].i]
         parsed == ParseFile(dir, name, FALSE)
     IN Set(p, IF proc[p].i < 1
                 THEN [proc[p] EXCEPT !.pc = "done", !.ret = Ret("ok", NoFile)]
               ELSE IF name \notin dir
                 THEN [proc[p] EXCEPT !.pc = "rb_delete_missing"]
               ELSE IF parsed.err # "none"
                 THEN [proc[p] EXCEPT !.pc = "done", !.ret = Ret("parse", name)]
               ELSE [proc[p] EXCEPT !.stmts = parsed.stmts, !.si = 1, !.pc = "rb_exec"])
  /\ UNCHANGED <<dir, runs, concurrent, rest>>
  /\ DBUnchanged

\* File not found: m.deleteMigration(name), then continue.
RollbackDeleteMissing(p) ==
  /\ proc[p].pc = "rb_delete_missing"
  /\ LET name == proc[p].files[proc[p].i]
     IN \E ok \in BOOLEAN :
          IF ok
            THEN /\ ledger' = deleteMigration(ledger, name)
                 /\ Set(p, [proc[p] EXCEPT !.ran = Append(@, name), !.i = @ - 1,
                                           !.pc = "rb_file"])
            ELSE /\ ledger' = ledger
                 /\ Set(p, [proc[p] EXCEPT !.pc = "done", !.ret = Ret("delete", name)])
  /\ UNCHANGED <<dir, tablesExist, lockRows, lock, nextId, executed, runs, concurrent, rest>>

\* The DOWN statement loop with the ledger row deleted on the error path too.
RollbackExecDeleteOnError(p) ==
  /\ proc[p].pc = "rb_exec"
  /\ proc[p].si <= Len(proc[p].stmts)
  /\ \E ok \in BOOLEAN :
       IF ok
         THEN /\ executed' = Apply(executed, <<proc[p].stmts[proc[p].si]>>)
              /\ ledger' = ledger
              /\ Set(p, [proc[p] EXCEPT !.si = @ + 1])
         ELSE /\ executed' = executed
              /\ ledger' = deleteMigration(ledger, proc[p].files[proc[p].i])
              /\ Set(p, [proc[p] EXCEPT !.pc = "done",
                                        !.ret = Ret("rollback", proc[p].files[proc[p].i])])
  /\ UNCHANGED <<dir, tablesExist, lockRows, lock, nextId, runs, concurrent, rest>>

\* m.DB.Exec(stmt) for the next DOWN statement, outside any transaction: its
\* effect is committed at once.
RollbackExec(p) ==
  /\ proc[p].pc = "rb_exec"
  /\ proc[p].si <= Len(proc[p].stmts)
  /\ \E ok \in BOOLEAN :
       IF ok
         THEN /\ executed' = Apply(executed, <<proc[p].stmts[proc[p].si]>>)
              /\ Set(p, [proc[p] EXCEPT !.si = @ + 1])
         ELSE /\ executed' = executed
              /\ Set(p, [proc[p] EXCEPT !.pc = "done",
                                        !.ret = Ret("rollback", proc[p].files[proc[p].i])])
  /\ UNCHANGED <<dir, tablesExist, lockRows, lock, ledger, nextId, runs, concurrent, rest>>

\* m.deleteMigration(name) after the DOWN statements.
RollbackDelete(p) ==
  /\ proc[p].pc = "rb_exec"
  /\ proc[p].si > Len(proc[p].stmts)
  /\ LET name == proc[p].files[proc[p].i]
     IN \E ok \in BOOLEAN :
          IF ok
            THEN /\ ledger' = deleteMigration(ledger, name)
                 /\ Set(p, [proc[p] EXCEPT !.ran = Append(@, name), !.i = @ - 1,
                                           !.pc = "rb_file"])
            ELSE /\ ledger' = ledger
                 /\ Set(p, [proc[p] EXCEPT !.pc = "done", !.ret = Ret("delete", name)])
  /\ UNCHANGED <<dir, tablesExist, lockRows, lock, nextId, executed, runs, concurrent, rest>>

\* ------------------------------------------------------------------ DryRun
\* m.getMigrated() in DryRun.
DryRunGetMigrated(p) ==
  /\ proc[p].pc = "dr_migrated"
  /\ \E ok \in BOOLEAN :
       Set(p, IF ok
                THEN [proc[p] EXCEPT !.migrated = getMigrated(ledger), !.pc = "dr_batch"]
                ELSE [proc[p] EXCEPT !.pc = "done", !.ret = Ret("migrated_list", NoFile)])
  /\ UNCHANGED <<dir, runs, concurrent, rest>>
  /\ DBUnchanged

\* m.getNextBatch() in DryRun.
DryRunGetNextBatch(p) ==
  /\ proc[p].pc = "dr_batch"
  /\ \E ok \in BOOLEAN :
       Set(p, IF ok
                THEN [proc[p] EXCEPT !.batch = getNextBatch(ledger), !.pc = "dr_files"]
                ELSE [proc[p] EXCEPT !.pc = "done", !.ret = Ret("next_batch", NoFile)])
  /\ UNCHANGED <<dir, runs, concurrent, rest>>
  /\ DBUnchanged

\* m.getMigrationFiles(migrationsPath) in DryRun.
DryRunGetFiles(p) ==
  /\ proc[p].pc = "dr_files"
  /\ \E ok \in BOOLEAN :
       Set(p, IF ok
                THEN [proc[p] EXCEPT !.files = getMigrationFiles(dir), !.i = 1, !.pc = "dr_loop"]
                ELSE [proc[p] EXCEPT !.pc = "done", !.ret = Ret("files", NoFile)])
  /\ UNCHANGED <<dir, runs, concurrent, rest>>
  /\ DBUnchanged

\* One "Would migrate: name (Batch n)" line of the report.
WouldMigrate(name, batch) == [name |-> name, batch |-> batch]

\* The loop of DryRun with the statements it parsed sent to the database.
DryRunNextFileExec(p) ==
  /\ proc[p].pc = "dr_loop"
  /\ LET k == NextPending(proc[p].files, proc[p].migrated, proc[p].i)
         name == proc[p].files[k]
         parsed == ParseFile(dir, name, TRUE)
     IN IF k > Len(proc[p].files)
          THEN /\ Set(p, [proc[p] EXCEPT !.i = k, !.pc = "done", !.ret = Ret("ok", NoFile)])
               /\ executed' = executed
        ELSE IF parsed.err # "none"
          THEN /\ Set(p, [proc[p] EXCEPT !.i = k, !.pc = "done", !.ret = Ret("parse", name)])
               /\ executed' = executed
        ELSE /\ Set(p, [proc[p] EXCEPT !.out = Append(@, WouldMigrate(name, proc[p].batch)),
                                       !.stmts = parsed.stmts, !.i = k + 1])
             /\ executed' = Apply(executed, parsed.stmts)
  /\ UNCHANGED <<dir, tablesExist, lockRows, lock, ledger, nextId, runs, concurrent, rest>>

\* The loop of DryRun over the files: skip the files in migrated; at the end
\* of the list return nil; else parse the file's UP section, return on a
\* parse error, and print the file with the batch and its statements.
DryRunNextFile(p) ==
  /\ proc[p].pc = "dr_loop"
  /\ LET k == NextPending(proc[p].files, proc[p].migrated, proc[p].i)
         name == proc[p].files[k]
         parsed == ParseFile(dir, name, TRUE)
     IN Set(p, IF k > Len(proc[p].files)
                 THEN [proc[p] EXCEPT !.i = k, !.pc = "done", !.ret = Ret("ok", NoFile)]
               ELSE IF parsed.err = "panic"
                 THEN [proc[p] EXCEPT !.i = k, !.pc = "done", !.ret = Ret("panic", name)]
               ELSE IF parsed.err # "none"
                 THEN [proc[p] EXCEPT !.i = k, !.pc = "done", !.ret = Ret("parse", name)]
               ELSE [proc[p] EXCEPT !.out = Append(@, WouldMigrate(name, proc[p].batch)),
                                    !.stmts = parsed.stmts, !.i = k + 1])
  /\ UNCHANGED <<dir, runs, concurrent, rest>>
  /\ DBUnchanged

\* ------------------------------------------------------------------ Status
\* m.getMigrationFiles(migrationsPath) in Status.
StatusGetFiles(p) ==
  /\ proc[p].pc = "st_files"
  /\ \E ok \in BOOLEAN :
       Set(p, IF ok
                THEN [proc[p] EXCEPT !.files = getMigrationFiles(dir), !.pc = "st_query"]
                ELSE [proc[p] EXCEPT !.pc = "done", !.ret = Ret("files", NoFile)])
  /\ UNCHANGED <<dir, runs, concurrent, rest>>
  /\ DBUnchanged

\* migratedMap with the id stored in place of the batch.
migratedMapOfIds(rows) ==
  [n \in {r.name : r \in rows} |->
     Max({r.id : r \in RowsNamed(rows, n)})]

\* migratedMap after the scan of SELECT migration, batch FROM migrations
\* ORDER BY id: for each name the batch of its row read last.
migratedMap(rows) ==
  [n \in {r.name : r \in rows} |->
     (CHOOSE r \in RowsNamed(rows, n) : \A q \in RowsNamed(rows, n) : q.id <= r.id).batch]

\* One MigrationStatus: batch, migrated := migratedMap[name].
MigrationStatus(map, name) ==
  [Name |-> name,
   Migrated |-> name \in DOMAIN map,
   Batch |-> IF name \in DOMAIN map THEN map[name] ELSE 0]

\* The query, the scan into migratedMap and the loop that builds statuses.
StatusQuery(p) ==
  /\ proc[p].pc = "st_query"
  /\ \E ok \in BOOLEAN :
       Set(p, IF ok
                THEN [proc[p] EXCEPT
                        !.out = [j \in 1..Len(proc[p].files) |->
                                   MigrationStatus(migratedMap(ledger), proc[p].files[j])],
                        !.pc = "done", !.ret = Ret("ok", NoFile)]
                ELSE [proc[p] EXCEPT !.pc = "done", !.ret = Ret("query", NoFile)])
  /\ UNCHANGED <<dir, runs, concurrent, rest>>
  /\ DBUnchanged

\* ----------------------------------------------------------- specification
Ops == {"Migrate", "AutoMigrate", "Rollback"}

Next ==
  \/ \E n \in MigrationNames : AddFile(n)
  \/ \E n \in MigrationNames : RemoveFile(n)
  \/ \E n \in MigrationNames : EditFile(n)
  \/ \E p \in Procs, op \in Ops : Start(p, op)
  \/ \E p \in Procs : Crash(p)
  \/ \E p \in Procs : EnsureMigrationsTable(p)
  \/ \E p \in Procs : ensureLockTable(p)
  \/ \E p \in Procs : acquireLockRead(p)
  \/ \E p \in Procs : acquireLockUpdate(p)
  \/ \E p \in Procs : MigrateGetMigrated(p)
  \/ \E p \in Procs : MigrateGetNextBatch(p)
  \/ \E p \in Procs : MigrateGetFiles(p)
  \/ \E p \in Procs : MigrateNextFile(p)
  \/ \E p \in Procs : MigrateExec(p)
  \/ \E p \in Procs : MigrateRecord(p)
  \/ \E p \in Procs : MigrateCommit(p)
  \/ \E p \in Procs : releaseLock(p)
  \/ \E p \in Procs : RollbackGetLastBatch(p)
  \/ \E p \in Procs : RollbackGetBatchMigrations(p)
  \/ \E p \in Procs : RollbackNextFile(p)
  \/ \E p \in Procs : RollbackDeleteMissing(p)
  \/ \E p \in Procs : RollbackExec(p)
  \/ \E p \in Procs : RollbackDelete(p)

Spec == Init /\ [][Next]_vars

\* The calls that only read: made by the operator between runs.
ReadOps == {"DryRun", "Status"}

SeqNext ==
  \/ Next
  \/ \E op \in ReadOps : Start(Operator, op)
  \/ DryRunGetMigrated(Operator)
  \/ DryRunGetNextBatch(Operator)
  \/ DryRunGetFiles(Operator)
  \/ DryRunNextFile(Operator)
  \/ StatusGetFiles(Operator)
  \/ StatusQuery(Operator)

SeqSpec == SeqInit /\ [][SeqNext]_vars

\* ------------------------------------------------------------- MigrateFile
\* MigrateFile(filePath), the targeted apply of `migrate --path=`: the UP
\* statements of the one file are run in a transaction; no table of the
\* ledger is read or written.
MigrateFileStart(p, n) ==
  /\ MayStart(p)
  /\ runs < MaxRuns
  /\ runs' = runs + 1
  /\ Set(p, [IdleProc EXCEPT !.pc = "mf_parse", !.op = "MigrateFile",
                             !.files = <<n>>, !.i = 1,
                             !.startLedger = ledger,
                             !.startDir = dir,
                             !.startExec = executed])
  /\ UNCHANGED <<dir, concurrent, rest>>
  /\ DBUnchanged

MigrateFileParse(p) ==
  /\ proc[p].pc = "mf_parse"
  /\ LET name == proc[p].files[1]
         parsed == ParseFile(dir, name, TRUE)
     IN IF parsed.err # "none"
          THEN Set(p, [proc[p] EXCEPT !.pc = "done", !.ret = Ret(parsed.err, name)])
        ELSE \E ok \in BOOLEAN :
               Set(p, IF ok
                        THEN [proc[p] EXCEPT !.stmts = parsed.stmts, !.si = 1,
                                             !.txStmts = <<>>, !.pc = "mf_exec"]
                        ELSE [proc[p] EXCEPT !.pc = "done", !.ret = Ret("begin", name)])
  /\ UNCHANGED <<dir, runs, concurrent, rest>>
  /\ DBUnchanged

MigrateFileExec(p) ==
  /\ proc[p].pc = "mf_exec"
  /\ proc[p].si <= Len(proc[p].stmts)
  /\ \E ok \in BOOLEAN :
       Set(p, IF ok
                THEN [proc[p] EXCEPT !.txStmts = Append(@, proc[p].stmts[proc[p].si]),
                                     !.si = @ + 1]
                ELSE [proc[p] EXCEPT !.txStmts = <<>>, !.pc = "done",
                                     !.ret = Ret("run", proc[p].files[1])])
  /\ UNCHANGED <<dir, runs, concurrent, rest>>
  /\ DBUnchanged

MigrateFileCommit(p) ==
  /\ proc[p].pc = "mf_exec"
  /\ proc[p].si > Len(proc[p].stmts)
  /\ \E ok \in BOOLEAN :
       IF ok
         THEN /\ executed' = Apply(executed, proc[p].txStmts)
              /\ Set(p, [proc[p] EXCEPT !.txStmts = <<>>, !.pc = "done",
                                        !.ret = Ret("ok", NoFile)])
         ELSE /\ executed' = executed
              /\ Set(p, [proc[p] EXCEPT !.txStmts = <<>>, !.pc = "done",
                                        !.ret = Ret("commit", proc[p].files[1])])
  /\ UNCHANGED <<dir, tablesExist, lockRows, lock, ledger, nextId, runs, concurrent, rest>>

\* The commands of the engine, one at a time, `migrate --path=` among them.
FileNext ==
  \/ Next
  \/ \E n \in MigrationNames : MigrateFileStart(Operator, n)
  \/ MigrateFileParse(Operator)
  \/ MigrateFileExec(Operator)
  \/ MigrateFileCommit(Operator)

FileSpec == SeqInit /\ [][FileNext]_vars

\* ---------------------------------------------------------- command line
\* The largest --step value tried.
MaxSteps == 3

\* The locals of the next call a command makes: those of a run that has not
\* started, and the command's own.
NextCall(p, op, pc) ==
  [IdleProc EXCEPT !.pc = pc, !.op = op,
                   !.startLedger = ledger, !.startDir = dir, !.startExec = executed,
                   !.cmd = proc[p].cmd, !.steps = proc[p].steps,
                   !.call = proc[p].call + 1, !.cmdLedger = proc[p].cmdLedger]

\* `migrate:rollback --step=N`: the first of the N calls of m.Rollback.
CliRollbackStart(p, N) ==
  /\ MayStart(p)
  /\ runs < MaxRuns
  /\ runs' = runs + 1
  /\ Set(p, [IdleProc EXCEPT !.pc = "rb_last", !.op = "Rollback",
                             !.startLedger = ledger, !.startDir = dir,
                             !.startExec = executed,
                             !.cmd = "rollback", !.steps = N, !.call = 1,
                             !.cmdLedger = ledger])
  /\ UNCHANGED <<dir, concurrent, rest>>
  /\ DBUnchanged

\* The loop that goes on after an error of m.Rollback.
CliRollbackAgainAfterError(p) ==
  /\ proc[p].pc = "done" /\ proc[p].cmd = "rollback"
  /\ proc[p].call < proc[p].steps
  /\ Set(p, NextCall(p, "Rollback", "rb_last"))
  /\ UNCHANGED <<dir, runs, concurrent, rest>>
  /\ DBUnchanged

\* for i := 0; i < steps; i++: the next call of m.Rollback; after an error
\* the command has exited.
CliRollbackAgain(p) ==
  /\ proc[p].pc = "done" /\ proc[p].cmd = "rollback"
  /\ proc[p].ret.kind = "ok"
  /\ proc[p].call < proc[p].steps
  /\ Set(p, NextCall(p, "Rollback", "rb_last"))
  /\ UNCHANGED <<dir, runs, concurrent, rest>>
  /\ DBUnchanged

\* migrate:fresh that empties the seeders table as well.
CliFreshStartWipeSeeders(p) ==
  /\ MayStart(p)
  /\ runs < MaxRuns
  /\ runs' = runs + 1
  /\ Set(p, [IdleProc EXCEPT !.pc = "fr_last", !.op = "Fresh",
                             !.startLedger = ledger, !.startDir = dir,
                             !.startExec = executed,
                             !.cmd = "fresh", !.cmdLedger = ledger])
  /\ seeders' = {}
  /\ UNCHANGED <<dir, concurrent, edited, parse, seedDir, seedersTable, seedNextId,
                 seedExec, sproc, seedRuns, pair, spair, dialect>>
  /\ DBUnchanged

\* `migrate:fresh`: the command starts with m.GetLastBatch().
CliFreshStart(p) ==
  /\ MayStart(p)
  /\ runs < MaxRuns
  /\ runs' = runs + 1
  /\ Set(p, [IdleProc EXCEPT !.pc = "fr_last", !.op = "Fresh",
                             !.startLedger = ledger, !.startDir = dir,
                             !.startExec = executed,
                             !.cmd = "fresh", !.cmdLedger = ledger])
  /\ UNCHANGED <<dir, concurrent, rest>>
  /\ DBUnchanged

\* m.GetLastBatch() at the head of the loop: exit on an error, m.Rollback
\* when a batch is left, else out of the loop to m.Migrate.
CliFreshGetLastBatch(p) ==
  /\ proc[p].pc = "fr_last"
  /\ \E ok \in BOOLEAN :
       Set(p, IF ~ok \/ ~tablesExist
                THEN [proc[p] EXCEPT !.pc = "done", !.ret = Ret("last_batch", NoFile)]
              ELSE IF getLastBatch(ledger) = 0
                THEN NextCall(p, "Migrate", "ensure")
              ELSE NextCall(p, "Rollback", "rb_last"))
  /\ UNCHANGED <<dir, runs, concurrent, rest>>
  /\ DBUnchanged

\* The loop of migrate:fresh going back to its head after an error too.
CliFreshLoopAfterError(p) ==
  /\ proc[p].pc = "done" /\ proc[p].cmd = "fresh" /\ proc[p].op = "Rollback"
  /\ Set(p, [proc[p] EXCEPT !.pc = "fr_last", !.op = "Fresh"])
  /\ UNCHANGED <<dir, runs, concurrent, rest>>
  /\ DBUnchanged

\* m.Rollback returned nil inside the loop: back to its head; after an error
\* the command has exited.
CliFreshLoop(p) ==
  /\ proc[p].pc = "done" /\ proc[p].cmd = "fresh" /\ proc[p].op = "Rollback"
  /\ proc[p].ret.kind = "ok"
  /\ Set(p, [proc[p] EXCEPT !.pc = "fr_last", !.op = "Fresh"])
  /\ UNCHANGED <<dir, runs, concurrent, rest>>
  /\ DBUnchanged

\* `migrate`, `migrate:rollback` and `migrate:fresh` of one operator, one
\* after the other, the directory changing between them: first the steps of
\* a command under way, then the whole.
FreshSteps ==
  \/ CliFreshGetLastBatch(Operator)
  \/ CliFreshLoop(Operator)
  \/ EnsureMigrationsTable(Operator)
  \/ ensureLockTable(Operator)
  \/ acquireLockRead(Operator)
  \/ acquireLockUpdate(Operator)
  \/ MigrateGetMigrated(Operator)
  \/ MigrateGetNextBatch(Operator)
  \/ MigrateGetFiles(Operator)
  \/ MigrateNextFile(Operator)
  \/ MigrateExec(Operator)
  \/ MigrateRecord(Operator)
  \/ MigrateCommit(Operator)
  \/ releaseLock(Operator)
  \/ RollbackGetLastBatch(Operator)
  \/ RollbackGetBatchMigrations(Operator)
  \/ RollbackNextFile(Operator)
  \/ RollbackDeleteMissing(Operator)
  \/ RollbackExec(Operator)
  \/ RollbackDelete(Operator)

FreshNext ==
  \/ \E n \in MigrationNames : AddFile(n)
  \/ \E n \in MigrationNames : RemoveFile(n)
  \/ \E op \in {"Migrate", "Rollback"} : Start(Operator, op)
  \/ CliFreshStart(Operator)
  \/ FreshSteps

FreshSpec == SeqInit /\ [][FreshNext]_vars

\* The runs of the engine, one at a time, `migrate:rollback --step=N` among
\* them.
CliNext ==
  \/ Next
  \/ \E N \in 1..MaxSteps : CliRollbackStart(Operator, N)
  \/ CliRollbackAgain(Operator)

CliSpec == SeqInit /\ [][CliNext]_vars

\* ------------------------------------------------- Migrate, then Rollback
\* A caller that makes one call of Migrate and, when it has returned, one
\* call of Rollback on the same Migration value.
TripStart(p) ==
  /\ MayStart(p)
  /\ runs < MaxRuns
  /\ runs' = runs + 1
  /\ Set(p, [IdleProc EXCEPT !.pc = "ensure", !.op = "Migrate",
                             !.startLedger = ledger, !.startDir = dir,
                             !.startExec = executed,
                             !.cmd = "trip", !.call = 1, !.cmdLedger = ledger])
  /\ UNCHANGED <<dir, concurrent, rest>>
  /\ DBUnchanged

\* The call of Rollback; steps keeps the number of rows the Migrate added.
TripRollback(p) ==
  /\ proc[p].pc = "done" /\ proc[p].cmd = "trip" /\ proc[p].call = 1
  /\ Set(p, [NextCall(p, "Rollback", "rb_last") EXCEPT
               !.steps = Cardinality(ledger \ proc[p].cmdLedger)])
  /\ UNCHANGED <<dir, runs, concurrent, rest>>
  /\ DBUnchanged

TripNext ==
  \/ \E n \in MigrationNames : AddFile(n)
  \/ \E n \in MigrationNames : RemoveFile(n)
  \/ Start(Operator, "Migrate")
  \/ TripStart(Operator)
  \/ TripRollback(Operator)
  \/ EnsureMigrationsTable(Operator)
  \/ ensureLockTable(Operator)
  \/ acquireLockRead(Operator)
  \/ acquireLockUpdate(Operator)
  \/ MigrateGetMigrated(Operator)
  \/ MigrateGetNextBatch(Operator)
  \/ MigrateGetFiles(Operator)
  \/ MigrateNextFile(Operator)
  \/ MigrateExec(Operator)
  \/ MigrateRecord(Operator)
  \/ MigrateCommit(Operator)
  \/ releaseLock(Operator)
  \/ RollbackGetLastBatch(Operator)
  \/ RollbackGetBatchMigrations(Operator)
  \/ RollbackNextFile(Operator)
  \/ RollbackDeleteMissing(Operator)
  \/ RollbackExec(Operator)
  \/ RollbackDelete(Operator)

TripSpec == SeqInit /\ [][TripNext]_vars

\* ------------------------------------------------------------------ seeder
\* The state of the migration engine, which the seeder leaves alone.
engineVars == <<dir, tablesExist, lockRows, lock, ledger, nextId, executed, proc,
                runs, concurrent, edited, parse, pair, spair, dialect>>

SetSeed(p, f) == sproc' = [sproc EXCEPT ![p] = f]

SeedDBUnchanged == UNCHANGED <<seedersTable, seeders, seedNextId, seedExec>>

\* getSeederFiles: the entries that are no directory, do not begin with "."
\* and do not end in ".go", sorted by sort.Strings.
getSeederFiles(entries) ==
  SortStrings({n \in entries :
                 /\ n # DirName
                 /\ ~HasPrefix(n, <<".">>)
                 /\ ~HasSuffix(n, <<".", "g", "o">>)})

\* SELECT seeder FROM seeders ORDER BY id.
getSeeded(rows) == {r.name : r \in rows}

\* The loop without its test of contains(seeded, name).
NextUnseededNoSkip(files, seeded, i) == i

\* The position of the first file at or after i that is not in seeded
\* (if contains(seeded, name) { continue }).
RECURSIVE NextUnseeded(_, _, _)
NextUnseeded(files, seeded, i) ==
  IF i > Len(files) THEN i
  ELSE IF files[i] \in seeded THEN NextUnseeded(files, seeded, i + 1)
  ELSE i

\* A developer adds a seed file to, or removes one from, the seeders
\* directory while no seeder run is under way.
AddSeedFile(n) ==
  /\ n \in SeedNames \ seedDir
  /\ \A q \in Procs : SeedQuiet(q)
  /\ seedDir' = seedDir \cup {n}
  /\ sproc' = [q \in Procs |-> IdleSeedProc]
  /\ UNCHANGED <<seedRuns, engineVars>>
  /\ SeedDBUnchanged

RemoveSeedFile(n) ==
  /\ n \in SeedNames \cap seedDir
  /\ \A q \in Procs : SeedQuiet(q)
  /\ seedDir' = seedDir \ {n}
  /\ sproc' = [q \in Procs |-> IdleSeedProc]
  /\ UNCHANGED <<seedRuns, engineVars>>
  /\ SeedDBUnchanged

\* The runs that skip the files recorded in the seeders table.
TrackedOps == {"RunWithTracking", "AutoSeed"}

\* A process calls RunWithTracking, AutoSeed or Run.
SeedStart(p, op) ==
  /\ SeedQuiet(p)
  /\ concurrent \/ p = Operator
  /\ seedRuns < MaxSeedRuns
  /\ seedRuns' = seedRuns + 1
  /\ SetSeed(p, [IdleSeedProc EXCEPT !.pc = IF op \in TrackedOps THEN "s_ensure" ELSE "r_files",
                                     !.op = op,
                                     !.startSeeders = seeders,
                                     !.startExec = seedExec,
                                     !.startDir = seedDir])
  /\ UNCHANGED <<seedDir, engineVars>>
  /\ SeedDBUnchanged

\* s.EnsureSeedersTable(): CREATE TABLE IF NOT EXISTS seeders, or an error.
EnsureSeedersTable(p) ==
  /\ sproc[p].pc = "s_ensure"
  /\ \E ok \in BOOLEAN :
       IF ok
         THEN /\ seedersTable' = TRUE
              /\ SetSeed(p, [sproc[p] EXCEPT !.pc = "s_seeded"])
         ELSE /\ seedersTable' = seedersTable
              /\ SetSeed(p, [sproc[p] EXCEPT !.pc = "done", !.ret = Ret("ensure", NoFile)])
  /\ UNCHANGED <<seedDir, seeders, seedNextId, seedExec, seedRuns, engineVars>>

\* s.getSeeded().
SeedGetSeeded(p) ==
  /\ sproc[p].pc = "s_seeded"
  /\ \E ok \in BOOLEAN :
       SetSeed(p, IF ok
                    THEN [sproc[p] EXCEPT !.seeded = getSeeded(seeders), !.pc = "s_files"]
                    ELSE [sproc[p] EXCEPT !.pc = "done", !.ret = Ret("seeded_list", NoFile)])
  /\ UNCHANGED <<seedDir, seedRuns, engineVars>>
  /\ SeedDBUnchanged

\* s.getSeederFiles(seedersPath).
SeedGetFiles(p) ==
  /\ sproc[p].pc = "s_files"
  /\ \E ok \in BOOLEAN :
       SetSeed(p, IF ok
                    THEN [sproc[p] EXCEPT !.files = getSeederFiles(seedDir), !.i = 1,
                                          !.pc = "s_loop"]
                    ELSE [sproc[p] EXCEPT !.pc = "done", !.ret = Ret("files", NoFile)])
  /\ UNCHANGED <<seedDir, seedRuns, engineVars>>
  /\ SeedDBUnchanged

\* The head of the loop over the files: skip the files in seeded; at the end
\* of the list return nil; else read and parse the file and begin a
\* transaction.
SeedNextFile(p) ==
  /\ sproc[p].pc = "s_loop"
  /\ LET k == NextUnseeded(sproc[p].files, sproc[p].seeded, sproc[p].i)
         name == sproc[p].files[k]
     IN IF k > Len(sproc[p].files)
          THEN SetSeed(p, [sproc[p] EXCEPT !.i = k, !.pc = "done", !.ret = Ret("ok", NoFile)])
        ELSE IF name \notin seedDir
          THEN SetSeed(p, [sproc[p] EXCEPT !.i = k, !.pc = "done", !.ret = Ret("parse", name)])
        ELSE \E ok \in BOOLEAN :
               SetSeed(p, IF ok
                            THEN [sproc[p] EXCEPT !.i = k,
                                                  !.stmts = parseSeederSQL(SeedContent(name)),
                                                  !.si = 1, !.txStmts = <<>>, !.pc = "s_exec"]
                            ELSE [sproc[p] EXCEPT !.i = k, !.pc = "done",
                                                  !.ret = Ret("begin", name)])
  /\ UNCHANGED <<seedDir, seedRuns, engineVars>>
  /\ SeedDBUnchanged

\* The statement loop with s.DB.Exec in place of tx.Exec: each statement is
\* committed as it runs.
SeedExecNoTx(p) ==
  /\ sproc[p].pc = "s_exec"
  /\ sproc[p].si <= Len(sproc[p].stmts)
  /\ \E ok \in BOOLEAN :
       IF ok
         THEN /\ seedExec' = Apply(seedExec, <<sproc[p].stmts[sproc[p].si]>>)
              /\ SetSeed(p, [sproc[p] EXCEPT !.si = @ + 1])
         ELSE /\ seedExec' = seedExec
              /\ SetSeed(p, [sproc[p] EXCEPT !.txStmts = <<>>, !.pc = "done",
                                             !.ret = Ret("run", sproc[p].files[sproc[p].i])])
  /\ UNCHANGED <<seedDir, seedersTable, seeders, seedNextId, seedRuns, engineVars>>

\* tx.Exec(stmt) for the next statement of the file; on an error tx.Rollback()
\* and return.
SeedExec(p) ==
  /\ sproc[p].pc = "s_exec"
  /\ sproc[p].si <= Len(sproc[p].stmts)
  /\ \E ok \in BOOLEAN :
       SetSeed(p, IF ok
                    THEN [sproc[p] EXCEPT !.txStmts = Append(@, sproc[p].stmts[sproc[p].si]),
                                          !.si = @ + 1]
                    ELSE [sproc[p] EXCEPT !.txStmts = <<>>, !.pc = "done",
                                          !.ret = Ret("run", sproc[p].files[sproc[p].i])])
  /\ UNCHANGED <<seedDir, seedRuns, engineVars>>
  /\ SeedDBUnchanged

\* tx.Exec(recordQuery, name) after the last statement: the INSERT fails when
\* a committed row has the name (seeder ... NOT NULL UNIQUE) or for a reason
\* of the database; on an error tx.Rollback() and return.
SeedRecord(p) ==
  /\ sproc[p].pc = "s_exec"
  /\ sproc[p].si > Len(sproc[p].stmts)
  /\ \E ok \in BOOLEAN :
       SetSeed(p, IF ok /\ sproc[p].files[sproc[p].i] \notin getSeeded(seeders)
                    THEN [sproc[p] EXCEPT !.pc = "s_commit"]
                    ELSE [sproc[p] EXCEPT !.txStmts = <<>>, !.pc = "done",
                                          !.ret = Ret("record", sproc[p].files[sproc[p].i])])
  /\ UNCHANGED <<seedDir, seedRuns, engineVars>>
  /\ SeedDBUnchanged

\* A commit that lets a second row with the same name in.
SeedCommitNoUnique(p) ==
  /\ sproc[p].pc = "s_commit"
  /\ \E ok \in BOOLEAN :
       IF ok
         THEN /\ seedExec' = Apply(seedExec, sproc[p].txStmts)
              /\ seeders' = seeders \cup {[id |-> seedNextId, name |-> sproc[p].files[sproc[p].i]]}
              /\ seedNextId' = seedNextId + 1
              /\ SetSeed(p, [sproc[p] EXCEPT !.txStmts = <<>>, !.i = @ + 1, !.pc = "s_loop"])
         ELSE /\ UNCHANGED <<seeders, seedNextId, seedExec>>
              /\ SetSeed(p, [sproc[p] EXCEPT !.txStmts = <<>>, !.pc = "done",
                                             !.ret = Ret("commit", sproc[p].files[sproc[p].i])])
  /\ UNCHANGED <<seedDir, seedersTable, seedRuns, engineVars>>

\* tx.Commit(): the statements and the seeders row become visible together,
\* or the commit fails and nothing does.
SeedCommit(p) ==
  /\ sproc[p].pc = "s_commit"
  /\ \E ok \in BOOLEAN :
       IF ok /\ sproc[p].files[sproc[p].i] \notin getSeeded(seeders)
         THEN /\ seedExec' = Apply(seedExec, sproc[p].txStmts)
              /\ seeders' = seeders \cup {[id |-> seedNextId, name |-> sproc[p].files[sproc[p].i]]}
              /\ seedNextId' = seedNextId + 1
              /\ SetSeed(p, [sproc[p] EXCEPT !.txStmts = <<>>, !.i = @ + 1, !.pc = "s_loop"])
         ELSE /\ UNCHANGED <<seeders, seedNextId, seedExec>>
              /\ SetSeed(p, [sproc[p] EXCEPT !.txStmts = <<>>, !.pc = "done",
                                             !.ret = Ret("commit", sproc[p].files[sproc[p].i])])
  /\ UNCHANGED <<seedDir, seedersTable, seedRuns, engineVars>>

\* A process calls RunFile(filePath) for a file name of its choice.
SeedStartFile(p, n) ==
  /\ SeedQuiet(p)
  /\ concurrent \/ p = Operator
  /\ seedRuns < MaxSeedRuns
  /\ seedRuns' = seedRuns + 1
  /\ SetSeed(p, [IdleSeedProc EXCEPT !.pc = "r_loop", !.op = "RunFile",
                                     !.files = <<n>>, !.i = 1,
                                     !.startSeeders = seeders,
                                     !.startExec = seedExec,
                                     !.startDir = seedDir])
  /\ UNCHANGED <<seedDir, engineVars>>
  /\ SeedDBUnchanged

\* s.getSeederFiles(seedersPath) in Run.
SeedRunGetFiles(p) ==
  /\ sproc[p].pc = "r_files"
  /\ \E ok \in BOOLEAN :
       SetSeed(p, IF ok
                    THEN [sproc[p] EXCEPT !.files = getSeederFiles(seedDir), !.i = 1,
                                          !.pc = "r_loop"]
                    ELSE [sproc[p] EXCEPT !.pc = "done", !.ret = Ret("files", NoFile)])
  /\ UNCHANGED <<seedDir, seedRuns, engineVars>>
  /\ SeedDBUnchanged

\* The loop head of Run with the files named in the seeders table passed over.
SeedRunNextFileSkipSeeded(p) ==
  /\ sproc[p].pc = "r_loop"
  /\ LET k == NextUnseeded(sproc[p].files, getSeeded(seeders), sproc[p].i)
         name == sproc[p].files[k]
     IN IF k > Len(sproc[p].files)
          THEN SetSeed(p, [sproc[p] EXCEPT !.i = k, !.pc = "done", !.ret = Ret("ok", NoFile)])
        ELSE SetSeed(p, [sproc[p] EXCEPT !.i = k,
                                         !.stmts = parseSeederSQL(SeedContent(name)),
                                         !.si = 1, !.txStmts = <<>>, !.pc = "r_exec"])
  /\ UNCHANGED <<seedDir, seedRuns, engineVars>>
  /\ SeedDBUnchanged

\* The loop head of Run, and the body of RunFile: at the end of the list
\* return nil; else read and parse the file (an error when it cannot be
\* read) and begin a transaction.
SeedRunNextFile(p) ==
  /\ sproc[p].pc = "r_loop"
  /\ LET k == sproc[p].i
         name == sproc[p].files[k]
     IN IF k > Len(sproc[p].files)
          THEN SetSeed(p, [sproc[p] EXCEPT !.pc = "done", !.ret = Ret("ok", NoFile)])
        ELSE IF name \notin seedDir
          THEN SetSeed(p, [sproc[p] EXCEPT !.pc = "done", !.ret = Ret("parse", name)])
        ELSE \E ok \in BOOLEAN :
               SetSeed(p, IF ok
                            THEN [sproc[p] EXCEPT !.stmts = parseSeederSQL(SeedContent(name)),
                                                  !.si = 1, !.txStmts = <<>>, !.pc = "r_exec"]
                            ELSE [sproc[p] EXCEPT !.pc = "done", !.ret = Ret("begin", name)])
  /\ UNCHANGED <<seedDir, seedRuns, engineVars>>
  /\ SeedDBUnchanged

\* tx.Exec(stmt) in Run and RunFile; on an error tx.Rollback() and return.
SeedRunExec(p) ==
  /\ sproc[p].pc = "r_exec"
  /\ sproc[p].si <= Len(sproc[p].stmts)
  /\ \E ok \in BOOLEAN :
       SetSeed(p, IF ok
                    THEN [sproc[p] EXCEPT !.txStmts = Append(@, sproc[p].stmts[sproc[p].si]),
                                          !.si = @ + 1]
                    ELSE [sproc[p] EXCEPT !.txStmts = <<>>, !.pc = "done",
                                          !.ret = Ret("run", sproc[p].files[sproc[p].i])])
  /\ UNCHANGED <<seedDir, seedRuns, engineVars>>
  /\ SeedDBUnchanged

\* tx.Commit() in Run and RunFile, after the last statement: no seeders row.
SeedRunCommit(p) ==
  /\ sproc[p].pc = "r_exec"
  /\ sproc[p].si > Len(sproc[p].stmts)
  /\ \E ok \in BOOLEAN :
       IF ok
         THEN /\ seedExec' = Apply(seedExec, sproc[p].txStmts)
              /\ SetSeed(p, [sproc[p] EXCEPT !.txStmts = <<>>, !.i = @ + 1, !.pc = "r_loop"])
         ELSE /\ seedExec' = seedExec
              /\ SetSeed(p, [sproc[p] EXCEPT !.txStmts = <<>>, !.pc = "done",
                                             !.ret = Ret("commit", sproc[p].files[sproc[p].i])])
  /\ UNCHANGED <<seedDir, seedersTable, seeders, seedNextId, seedRuns, engineVars>>

\* The seeder calls: the two tracked runs, Run and RunFile.
SeedOps == TrackedOps \cup {"Run"}

SeedNext ==
  \/ \E n \in SeedNames : AddSeedFile(n)
  \/ \E n \in SeedNames : RemoveSeedFile(n)
  \/ \E p \in Procs, op \in SeedOps : SeedStart(p, op)
  \/ \E p \in Procs, n \in SeedNames : SeedStartFile(p, n)
  \/ \E p \in Procs : SeedRunGetFiles(p)
  \/ \E p \in Procs : SeedRunNextFile(p)
  \/ \E p \in Procs : SeedRunExec(p)
  \/ \E p \in Procs : SeedRunCommit(p)
  \/ \E p \in Procs : EnsureSeedersTable(p)
  \/ \E p \in Procs : SeedGetSeeded(p)
  \/ \E p \in Procs : SeedGetFiles(p)
  \/ \E p \in Procs : SeedNextFile(p)
  \/ \E p \in Procs : SeedExec(p)
  \/ \E p \in Procs : SeedRecord(p)
  \/ \E p \in Procs : SeedCommit(p)

\* Seeder runs that never overlap.
SeedSpec == SeqInit /\ [][SeedNext]_vars

\* -------------------------------------------- tracked runs that overlap
\* RunWithTracking and AutoSeed called by processes whose runs may overlap.
TrackedNext ==
  \/ \E n \in SeedNames : AddSeedFile(n)
  \/ \E n \in SeedNames : RemoveSeedFile(n)
  \/ \E p \in Procs, op \in TrackedOps : SeedStart(p, op)
  \/ \E p \in Procs : EnsureSeedersTable(p)
  \/ \E p \in Procs : SeedGetSeeded(p)
  \/ \E p \in Procs : SeedGetFiles(p)
  \/ \E p \in Procs : SeedNextFile(p)
  \/ \E p \in Procs : SeedExec(p)
  \/ \E p \in Procs : SeedRecord(p)
  \/ \E p \in Procs : SeedCommit(p)

TrackedSpec == Init /\ [][TrackedNext]_vars

\* ------------------------------------------------------------ make:seeder
\* The names handed to make:seeder: with and without the suffix.
MakeNames == {<<"a">>, <<"b">>, <<"b">> \o SeederSuffix}

\* getDBDriver of the seeder: db.QueryRow on the handle it is given, without
\* a test for nil (a nil handle is a nil pointer dereference, a run-time
\* panic); "mysql" when SELECT 1 can be read, else "postgres" when
\* SELECT version() can be read and names postgres, else "mysql".
seederGetDBDriver(dbNil, select1, version) ==
  IF dbNil THEN "fault"
  ELSE IF select1 THEN "mysql"
  ELSE IF version = "postgres" THEN "postgres"
  ELSE "mysql"

\* handleMakeSeeder: the suffix is appended unless the name ends in it, the
\* Seeder is built by seeder.New(nil), MakeSeeder writes the template.
HandleMakeSeeder(p, arg) ==
  /\ SeedQuiet(p)
  /\ concurrent \/ p = Operator
  /\ seedRuns < MaxSeedRuns
  /\ seedRuns' = seedRuns + 1
  /\ LET seederName == IF HasSuffix(arg, SeederSuffix) THEN arg ELSE arg \o SeederSuffix
         driver == seederGetDBDriver(TRUE, TRUE, "none")
         made(kind) == [IdleSeedProc EXCEPT !.pc = "done", !.op = "MakeSeeder",
                                            !.files = <<seederName>>, !.i = 1,
                                            !.ret = Ret(kind, seederName),
                                            !.startSeeders = seeders,
                                            !.startExec = seedExec,
                                            !.startDir = seedDir]
     IN IF driver = "fault"
          THEN /\ SetSeed(p, made("panic"))
               /\ seedDir' = seedDir
          ELSE \E ok \in BOOLEAN :
                 IF ok THEN /\ SetSeed(p, made("ok"))
                            /\ seedDir' = seedDir \cup {seederName}
                       ELSE /\ SetSeed(p, made("write"))
                            /\ seedDir' = seedDir
  /\ UNCHANGED engineVars
  /\ SeedDBUnchanged

MakeNext ==
  \/ SeedNext
  \/ \E p \in Procs, arg \in MakeNames : HandleMakeSeeder(p, arg)

MakeSpec == SeqInit /\ [][MakeNext]_vars

\* ------------------------------------------------------- the whole tool
\* The commands of the command line, migrations and seeders, issued by one
\* operator one after the other against one database.
MaxToolRuns == 4

ToolIdle == Quiet(Operator) /\ SeedQuiet(Operator)

\* The directories the first command finds: one migration file, two seed
\* files.
ToolReady == <<"1", "a">> \in dir /\ SeedNames \subseteq seedDir

ToolMayStart ==
  /\ ToolIdle
  /\ runs + seedRuns < MaxToolRuns
  /\ runs + seedRuns = 0 => ToolReady

\* The two directories are filled before the first command; later a
\* migration file that has been applied may be deleted.
ToolSetup ==
  \/ /\ runs + seedRuns = 0
     /\ \/ AddFile(<<"1", "a">>)
        \/ \E n \in SeedNames : AddSeedFile(n)
  \/ /\ ToolIdle
     /\ \E n \in MigrationNames : RowsNamed(ledger, n) # {} /\ RemoveFile(n)

\* `migrate`, `migrate:rollback`, `migrate:fresh`.
ToolStartEngine ==
  /\ ToolMayStart
  /\ \/ \E op \in {"Migrate", "Rollback"} : Start(Operator, op)
     \/ CliFreshStart(Operator)

\* `db:seed`, `db:seed --path=`, and the tracked runs of the library; the
\* handleSeed call of `migrate --seed` and `migrate:fresh --seed` is the
\* first of these.
ToolStartSeed ==
  /\ ToolMayStart
  /\ \/ \E op \in SeedOps : SeedStart(Operator, op)
     \/ \E n \in SeedNames : SeedStartFile(Operator, n)

ToolNext ==
  \/ ToolSetup
  \/ ToolStartEngine
  \/ ToolStartSeed
  \/ CliFreshGetLastBatch(Operator)
  \/ CliFreshLoop(Operator)
  \/ EnsureMigrationsTable(Operator)
  \/ ensureLockTable(Operator)
  \/ acquireLockRead(Operator)
  \/ acquireLockUpdate(Operator)
  \/ MigrateGetMigrated(Operator)
  \/ MigrateGetNextBatch(Operator)
  \/ MigrateGetFiles(Operator)
  \/ MigrateNextFile(Operator)
  \/ MigrateExec(Operator)
  \/ MigrateRecord(Operator)
  \/ MigrateCommit(Operator)
  \/ releaseLock(Operator)
  \/ RollbackGetLastBatch(Operator)
  \/ RollbackGetBatchMigrations(Operator)
  \/ RollbackNextFile(Operator)
  \/ RollbackDeleteMissing(Operator)
  \/ RollbackExec(Operator)
  \/ RollbackDelete(Operator)
  \/ SeedRunGetFiles(Operator)
  \/ SeedRunNextFile(Operator)
  \/ SeedRunExec(Operator)
  \/ SeedRunCommit(Operator)
  \/ EnsureSeedersTable(Operator)
  \/ SeedGetSeeded(Operator)
  \/ SeedGetFiles(Operator)
  \/ SeedNextFile(Operator)
  \/ SeedExec(Operator)
  \/ SeedRecord(Operator)
  \/ SeedCommit(Operator)

ToolSpec == SeqInit /\ [][ToolNext]_vars

\* ------------------------------------------- Migrate beside AutoMigrate
\* Each of the two functions as a step function on a database with the
\* locals of the run: one database call per step, ok telling whether a call
\* that can fail succeeds.

\* AutoMigrate without the deferred releaseLock.
AutoMigrateStepNoRelease(w, ok) ==
  LET k == NextPending(w.files, w.migrated, w.i)
      name == w.files[k]
      parsed == ParseFile(dir, name, TRUE)
      cur == w.files[w.i]
  IN CASE w.pc = "ensure" ->
            [w EXCEPT !.tablesExist = TRUE,
                      !.pc = IF w.lockRows = 0 THEN "ensure_insert" ELSE "acquire"]
       [] w.pc = "ensure_insert" ->
            [w EXCEPT !.lockRows = @ + 1, !.pc = "acquire"]
       [] w.pc = "acquire" ->
            IF w.lockRows = 0 THEN [w EXCEPT !.pc = "done", !.ret = Ret("lock_check", NoFile)]
            ELSE IF w.lock.locked
              THEN [w EXCEPT !.pc = "done", !.ret = Ret("already_running", NoFile)]
            ELSE [w EXCEPT !.pc = "acquire_update"]
       [] w.pc = "acquire_update" ->
            IF ok THEN [w EXCEPT !.lock = Locked, !.pc = "migrated"]
            ELSE [w EXCEPT !.pc = "done", !.ret = Ret("acquire", NoFile)]
       [] w.pc = "migrated" ->
            IF ok THEN [w EXCEPT !.migrated = getMigrated(w.ledger), !.pc = "batch"]
            ELSE [w EXCEPT !.pc = "release", !.ret = Ret("migrated_list", NoFile)]
       [] w.pc = "batch" ->
            IF ok THEN [w EXCEPT !.batch = getNextBatch(w.ledger), !.pc = "files"]
            ELSE [w EXCEPT !.pc = "release", !.ret = Ret("next_batch", NoFile)]
       [] w.pc = "files" ->
            IF ok THEN [w EXCEPT !.files = getMigrationFiles(dir), !.i = 1, !.pc = "loop"]
            ELSE [w EXCEPT !.pc = "release", !.ret = Ret("files", NoFile)]
       [] w.pc = "loop" ->
            IF k > Len(w.files)
              THEN [w EXCEPT !.i = k, !.pc = "release", !.ret = Ret("ok", NoFile)]
            ELSE IF parsed.err = "panic"
              THEN [w EXCEPT !.i = k, !.pc = "release", !.ret = Ret("panic", name)]
            ELSE IF parsed.err # "none"
              THEN [w EXCEPT !.i = k, !.pc = "release", !.ret = Ret("parse", name)]
            ELSE IF ok
              THEN [w EXCEPT !.i = k, !.stmts = parsed.stmts, !.si = 1, !.pc = "exec"]
            ELSE [w EXCEPT !.i = k, !.pc = "release", !.ret = Ret("begin", name)]
       [] w.pc = "exec" /\ w.si <= Len(w.stmts) ->
            IF ok THEN [w EXCEPT !.txStmts = Append(@, w.stmts[w.si]), !.si = @ + 1]
            ELSE [w EXCEPT !.txStmts = <<>>, !.pc = "release", !.ret = Ret("run", cur)]
       [] w.pc = "exec" /\ w.si > Len(w.stmts) ->
            IF ok
              THEN [w EXCEPT !.nextId = @ + 1,
                             !.txRow = [id |-> w.nextId, name |-> cur, batch |-> w.batch],
                             !.pc = "commit"]
            ELSE [w EXCEPT !.txStmts = <<>>, !.pc = "release", !.ret = Ret("record", cur)]
       [] w.pc = "commit" ->
            IF ok
              THEN [w EXCEPT !.executed = Apply(@, w.txStmts),
                             !.ledger = @ \cup {w.txRow},
                             !.txStmts = <<>>, !.txRow = NoRow, !.i = @ + 1, !.pc = "loop"]
            ELSE [w EXCEPT !.txStmts = <<>>, !.txRow = NoRow, !.pc = "release",
                           !.ret = Ret("commit", cur)]
       [] w.pc = "release" ->
            [w EXCEPT !.lock = @, !.pc = "done"]
       [] OTHER -> w

\* AutoMigrate(migrationsPath): the step of the run at w.pc.
AutoMigrateStep(w, ok) ==
  LET k == NextPending(w.files, w.migrated, w.i)
      name == w.files[k]
      parsed == ParseFile(dir, name, TRUE)
      cur == w.files[w.i]
  IN CASE w.pc = "ensure" ->
            [w EXCEPT !.tablesExist = TRUE,
                      !.pc = IF w.lockRows = 0 THEN "ensure_insert" ELSE "acquire"]
       [] w.pc = "ensure_insert" ->
            [w EXCEPT !.lockRows = @ + 1, !.pc = "acquire"]
       [] w.pc = "acquire" ->
            IF w.lockRows = 0 THEN [w EXCEPT !.pc = "done", !.ret = Ret("lock_check", NoFile)]
            ELSE IF w.lock.locked
              THEN [w EXCEPT !.pc = "done", !.ret = Ret("already_running", NoFile)]
            ELSE [w EXCEPT !.pc = "acquire_update"]
       [] w.pc = "acquire_update" ->
            IF ok THEN [w EXCEPT !.lock = Locked, !.pc = "migrated"]
            ELSE [w EXCEPT !.pc = "done", !.ret = Ret("acquire", NoFile)]
       [] w.pc = "migrated" ->
            IF ok THEN [w EXCEPT !.migrated = getMigrated(w.ledger), !.pc = "batch"]
            ELSE [w EXCEPT !.pc = "release", !.ret = Ret("migrated_list", NoFile)]
       [] w.pc = "batch" ->
            IF ok THEN [w EXCEPT !.batch = getNextBatch(w.ledger), !.pc = "files"]
            ELSE [w EXCEPT !.pc = "release", !.ret = Ret("next_batch", NoFile)]
       [] w.pc = "files" ->
            IF ok THEN [w EXCEPT !.files = getMigrationFiles(dir), !.i = 1, !.pc = "loop"]
            ELSE [w EXCEPT !.pc = "release", !.ret = Ret("files", NoFile)]
       [] w.pc = "loop" ->
            IF k > Len(w.files)
              THEN [w EXCEPT !.i = k, !.pc = "release", !.ret = Ret("ok", NoFile)]
            ELSE IF parsed.err = "panic"
              THEN [w EXCEPT !.i = k, !.pc = "release", !.ret = Ret("panic", name)]
            ELSE IF parsed.err # "none"
              THEN [w EXCEPT !.i = k, !.pc = "release", !.ret = Ret("parse", name)]
            ELSE IF ok
              THEN [w EXCEPT !.i = k, !.stmts = parsed.stmts, !.si = 1, !.pc = "exec"]
            ELSE [w EXCEPT !.i = k, !.pc = "release", !.ret = Ret("begin", name)]
       [] w.pc = "exec" /\ w.si <= Len(w.stmts) ->
            IF ok THEN [w EXCEPT !.txStmts = Append(@, w.stmts[w.si]), !.si = @ + 1]
            ELSE [w EXCEPT !.txStmts = <<>>, !.pc = "release", !.ret = Ret("run", cur)]
       [] w.pc = "exec" /\ w.si > Len(w.stmts) ->
            IF ok
              THEN [w EXCEPT !.nextId = @ + 1,
                             !.txRow = [id |-> w.nextId, name |-> cur, batch |-> w.batch],
                             !.pc = "commit"]
            ELSE [w EXCEPT !.txStmts = <<>>, !.pc = "release", !.ret = Ret("record", cur)]
       [] w.pc = "commit" ->
            IF ok
              THEN [w EXCEPT !.executed = Apply(@, w.txStmts),
                             !.ledger = @ \cup {w.txRow},
                             !.txStmts = <<>>, !.txRow = NoRow, !.i = @ + 1, !.pc = "loop"]
            ELSE [w EXCEPT !.txStmts = <<>>, !.txRow = NoRow, !.pc = "release",
                           !.ret = Ret("commit", cur)]
       [] w.pc = "release" ->
            [w EXCEPT !.lock = Unlocked, !.pc = "done"]
       [] OTHER -> w

\* Migrate(migrationsPath): the step of the run at w.pc.
MigrateStep(w, ok) ==
  LET k == NextPending(w.files, w.migrated, w.i)
      name == w.files[k]
      parsed == ParseFile(dir, name, TRUE)
      cur == w.files[w.i]
  IN CASE w.pc = "ensure" ->
            [w EXCEPT !.tablesExist = TRUE,
                      !.pc = IF w.lockRows = 0 THEN "ensure_insert" ELSE "acquire"]
       [] w.pc = "ensure_insert" ->
            [w EXCEPT !.lockRows = @ + 1, !.pc = "acquire"]
       [] w.pc = "acquire" ->
            IF w.lockRows = 0 THEN [w EXCEPT !.pc = "done", !.ret = Ret("lock_check", NoFile)]
            ELSE IF w.lock.locked
              THEN [w EXCEPT !.pc = "done", !.ret = Ret("already_running", NoFile)]
            ELSE [w EXCEPT !.pc = "acquire_update"]
       [] w.pc = "acquire_update" ->
            IF ok THEN [w EXCEPT !.lock = Locked, !.pc = "migrated"]
            ELSE [w EXCEPT !.pc = "done", !.ret = Ret("acquire", NoFile)]
       [] w.pc = "migrated" ->
            IF ok THEN [w EXCEPT !.migrated = getMigrated(w.ledger), !.pc = "batch"]
            ELSE [w EXCEPT !.pc = "release", !.ret = Ret("migrated_list", NoFile)]
       [] w.pc = "batch" ->
            IF ok THEN [w EXCEPT !.batch = getNextBatch(w.ledger), !.pc = "files"]
            ELSE [w EXCEPT !.pc = "release", !.ret = Ret("next_batch", NoFile)]
       [] w.pc = "files" ->
            IF ok THEN [w EXCEPT !.files = getMigrationFiles(dir), !.i = 1, !.pc = "loop"]
            ELSE [w EXCEPT !.pc = "release", !.ret = Ret("files", NoFile)]
       [] w.pc = "loop" ->
            IF k > Len(w.files)
              THEN [w EXCEPT !.i = k, !.pc = "release", !.ret = Ret("ok", NoFile)]
            ELSE IF parsed.err = "panic"
              THEN [w EXCEPT !.i = k, !.pc = "release", !.ret = Ret("panic", name)]
            ELSE IF parsed.err # "none"
              THEN [w EXCEPT !.i = k, !.pc = "release", !.ret = Ret("parse", name)]
            ELSE IF ok
              THEN [w EXCEPT !.i = k, !.stmts = parsed.stmts, !.si = 1, !.pc = "exec"]
            ELSE [w EXCEPT !.i = k, !.pc = "release", !.ret = Ret("begin", name)]
       [] w.pc = "exec" /\ w.si <= Len(w.stmts) ->
            IF ok THEN [w EXCEPT !.txStmts = Append(@, w.stmts[w.si]), !.si = @ + 1]
            ELSE [w EXCEPT !.txStmts = <<>>, !.pc = "release", !.ret = Ret("run", cur)]
       [] w.pc = "exec" /\ w.si > Len(w.stmts) ->
            IF ok
              THEN [w EXCEPT !.nextId = @ + 1,
                             !.txRow = [id |-> w.nextId, name |-> cur, batch |-> w.batch],
                             !.pc = "commit"]
            ELSE [w EXCEPT !.txStmts = <<>>, !.pc = "release", !.ret = Ret("record", cur)]
       [] w.pc = "commit" ->
            IF ok
              THEN [w EXCEPT !.executed = Apply(@, w.txStmts),
                             !.ledger = @ \cup {w.txRow},
                             !.txStmts = <<>>, !.txRow = NoRow, !.i = @ + 1, !.pc = "loop"]
            ELSE [w EXCEPT !.txStmts = <<>>, !.txRow = NoRow, !.pc = "release",
                           !.ret = Ret("commit", cur)]
       [] w.pc = "release" ->
            [w EXCEPT !.lock = Unlocked, !.pc = "done"]
       [] OTHER -> w

WorldQuiet(w) == w.pc \in {"idle", "done"}

\* The locals of a call that starts on the database of w.
StartWorld(w) ==
  [w EXCEPT !.pc = "ensure", !.migrated = {}, !.batch = 0, !.files = <<>>, !.i = 0,
            !.stmts = <<>>, !.si = 0, !.txStmts = <<>>, !.txRow = NoRow,
            !.ret = Ret("none", NoFile)]

\* Migrate is called on one database and AutoMigrate on the other.
PairStart ==
  /\ WorldQuiet(pair.a) /\ WorldQuiet(pair.b)
  /\ spair.runs = 0 /\ seedDir = FixedEntries
  /\ pair.runs < MaxPairRuns
  /\ pair' = [a |-> StartWorld(pair.a), b |-> StartWorld(pair.b), runs |-> pair.runs + 1]
  /\ UNCHANGED <<dir, proc, runs, concurrent, edited, parse, seedVars, spair, dialect>>
  /\ DBUnchanged

\* Both runs take their next step; a call that fails in one fails in the other.
PairStep ==
  /\ ~WorldQuiet(pair.a) \/ ~WorldQuiet(pair.b)
  /\ \E ok \in BOOLEAN :
       pair' = [pair EXCEPT !.a = MigrateStep(pair.a, ok), !.b = AutoMigrateStep(pair.b, ok)]
  /\ UNCHANGED <<dir, proc, runs, concurrent, edited, parse, seedVars, spair, dialect>>
  /\ DBUnchanged

\* Both processes are killed while they hold the lock.
PairCrash ==
  /\ pair.a.pc \in {"migrated", "batch", "files", "loop", "exec", "commit", "release"}
  /\ pair' = [pair EXCEPT
                !.a = [@ EXCEPT !.pc = "done", !.txStmts = <<>>, !.txRow = NoRow,
                                !.ret = Ret("crash", NoFile)],
                !.b = [@ EXCEPT !.pc = "done", !.txStmts = <<>>, !.txRow = NoRow,
                                !.ret = Ret("crash", NoFile)]]
  /\ UNCHANGED <<dir, proc, runs, concurrent, edited, parse, seedVars, spair, dialect>>
  /\ DBUnchanged

\* The directory changes between the runs.
PairEnv ==
  /\ WorldQuiet(pair.a) /\ WorldQuiet(pair.b)
  /\ spair.runs = 0 /\ seedDir = FixedEntries
  /\ \E n \in MigrationNames : AddFile(n) \/ RemoveFile(n) \/ EditFile(n)

\* --------------------------------------- RunWithTracking beside AutoSeed

\* AutoSeed(seedersPath): the step of the run at w.pc.
AutoSeedStep(w, ok) ==
  LET k == NextUnseeded(w.files, w.seeded, w.i)
      name == w.files[k]
      cur == w.files[w.i]
  IN CASE w.pc = "s_ensure" ->
            IF ok THEN [w EXCEPT !.seedersTable = TRUE, !.pc = "s_seeded"]
            ELSE [w EXCEPT !.pc = "done", !.ret = Ret("ensure", NoFile)]
       [] w.pc = "s_seeded" ->
            IF ok THEN [w EXCEPT !.seeded = getSeeded(w.seeders), !.pc = "s_files"]
            ELSE [w EXCEPT !.pc = "done", !.ret = Ret("seeded_list", NoFile)]
       [] w.pc = "s_files" ->
            IF ok THEN [w EXCEPT !.files = getSeederFiles(seedDir), !.i = 1, !.pc = "s_loop"]
            ELSE [w EXCEPT !.pc = "done", !.ret = Ret("files", NoFile)]
       [] w.pc = "s_loop" ->
            IF k > Len(w.files)
              THEN [w EXCEPT !.i = k, !.pc = "done", !.ret = Ret("ok", NoFile)]
            ELSE IF name \notin seedDir
              THEN [w EXCEPT !.i = k, !.pc = "done", !.ret = Ret("parse", name)]
            ELSE IF ok
              THEN [w EXCEPT !.i = k, !.stmts = parseSeederSQL(SeedContent(name)),
                             !.si = 1, !.txStmts = <<>>, !.pc = "s_exec"]
            ELSE [w EXCEPT !.i = k, !.pc = "done", !.ret = Ret("begin", name)]
       [] w.pc = "s_exec" /\ w.si <= Len(w.stmts) ->
            IF ok THEN [w EXCEPT !.txStmts = Append(@, w.stmts[w.si]), !.si = @ + 1]
            ELSE [w EXCEPT !.txStmts = <<>>, !.pc = "done", !.ret = Ret("run", cur)]
       [] w.pc = "s_exec" /\ w.si > Len(w.stmts) ->
            IF ok /\ cur \notin getSeeded(w.seeders) THEN [w EXCEPT !.pc = "s_commit"]
            ELSE [w EXCEPT !.txStmts = <<>>, !.pc = "done", !.ret = Ret("record", cur)]
       [] w.pc = "s_commit" ->
            IF ok /\ cur \notin getSeeded(w.seeders)
              THEN [w EXCEPT !.seedExec = Apply(@, w.txStmts),
                             !.seeders = @ \cup {[id |-> w.seedNextId, name |-> cur]},
                             !.seedNextId = @ + 1,
                             !.txStmts = <<>>, !.i = @ + 1, !.pc = "s_loop"]
            ELSE [w EXCEPT !.txStmts = <<>>, !.pc = "done", !.ret = Ret("commit", cur)]
       [] OTHER -> w

\* RunWithTracking(seedersPath): the step of the run at w.pc.
RunWithTrackingStep(w, ok) ==
  LET k == NextUnseeded(w.files, w.seeded, w.i)
      name == w.files[k]
      cur == w.files[w.i]
  IN CASE w.pc = "s_ensure" ->
            IF ok THEN [w EXCEPT !.seedersTable = TRUE, !.pc = "s_seeded"]
            ELSE [w EXCEPT !.pc = "done", !.ret = Ret("ensure", NoFile)]
       [] w.pc = "s_seeded" ->
            IF ok THEN [w EXCEPT !.seeded = getSeeded(w.seeders), !.pc = "s_files"]
            ELSE [w EXCEPT !.pc = "done", !.ret = Ret("seeded_list", NoFile)]
       [] w.pc = "s_files" ->
            IF ok THEN [w EXCEPT !.files = getSeederFiles(seedDir), !.i = 1, !.pc = "s_loop"]
            ELSE [w EXCEPT !.pc = "done", !.ret = Ret("files", NoFile)]
       [] w.pc = "s_loop" ->
            IF k > Len(w.files)
              THEN [w EXCEPT !.i = k, !.pc = "done", !.ret = Ret("ok", NoFile)]
            ELSE IF name \notin seedDir
              THEN [w EXCEPT !.i = k, !.pc = "done", !.ret = Ret("parse", name)]
            ELSE IF ok
              THEN [w EXCEPT !.i = k, !.stmts = parseSeederSQL(SeedContent(name)),
                             !.si = 1, !.txStmts = <<>>, !.pc = "s_exec"]
            ELSE [w EXCEPT !.i = k, !.pc = "done", !.ret = Ret("begin", name)]
       [] w.pc = "s_exec" /\ w.si <= Len(w.stmts) ->
            IF ok THEN [w EXCEPT !.txStmts = Append(@, w.stmts[w.si]), !.si = @ + 1]
            ELSE [w EXCEPT !.txStmts = <<>>, !.pc = "done", !.ret = Ret("run", cur)]
       [] w.pc = "s_exec" /\ w.si > Len(w.stmts) ->
            IF ok /\ cur \notin getSeeded(w.seeders) THEN [w EXCEPT !.pc = "s_commit"]
            ELSE [w EXCEPT !.txStmts = <<>>, !.pc = "done", !.ret = Ret("record", cur)]
       [] w.pc = "s_commit" ->
            IF ok /\ cur \notin getSeeded(w.seeders)
              THEN [w EXCEPT !.seedExec = Apply(@, w.txStmts),
                             !.seeders = @ \cup {[id |-> w.seedNextId, name |-> cur]},
                             !.seedNextId = @ + 1,
                             !.txStmts = <<>>, !.i = @ + 1, !.pc = "s_loop"]
            ELSE [w EXCEPT !.txStmts = <<>>, !.pc = "done", !.ret = Ret("commit", cur)]
       [] OTHER -> w

StartSeedWorld(w) ==
  [w EXCEPT !.pc = "s_ensure", !.seeded = {}, !.files = <<>>, !.i = 0,
            !.stmts = <<>>, !.si = 0, !.txStmts = <<>>, !.ret = Ret("none", NoFile)]

\* RunWithTracking is called on one database and AutoSeed on the other.
SeedPairStart ==
  /\ WorldQuiet(spair.a) /\ WorldQuiet(spair.b)
  /\ pair.runs = 0 /\ dir = FixedEntries
  /\ spair.runs < MaxPairRuns
  /\ spair' = [a |-> StartSeedWorld(spair.a), b |-> StartSeedWorld(spair.b),
               runs |-> spair.runs + 1]
  /\ UNCHANGED <<dir, proc, runs, concurrent, edited, parse, seedVars, pair, dialect>>
  /\ DBUnchanged

SeedPairStep ==
  /\ ~WorldQuiet(spair.a) \/ ~WorldQuiet(spair.b)
  /\ \E ok \in BOOLEAN :
       spair' = [spair EXCEPT !.a = RunWithTrackingStep(spair.a, ok),
                              !.b = AutoSeedStep(spair.b, ok)]
  /\ UNCHANGED <<dir, proc, runs, concurrent, edited, parse, seedVars, pair, dialect>>
  /\ DBUnchanged

\* The seeders directory changes between the runs.
SeedPairEnv ==
  /\ WorldQuiet(spair.a) /\ WorldQuiet(spair.b)
  /\ pair.runs = 0 /\ dir = FixedEntries
  /\ \E n \in SeedNames : AddSeedFile(n) \/ RemoveSeedFile(n)

\* The verbose and the silent variant of each run, on databases that start
\* equal and meet the same failures.  The engine and the seeder share no
\* state, so a behaviour exercises one pair or the other.
PairNext ==
  \/ PairStart
  \/ PairStep
  \/ PairCrash
  \/ PairEnv
  \/ SeedPairStart
  \/ SeedPairStep
  \/ SeedPairEnv

PairSpec == SeqInit /\ [][PairNext]_vars

\* parseMigrationSQL on its own, over every text of up to MaxTextLen tokens.
Tokens == {"UP", "DOWN", ";", "ws", "cmt", "a", "b"}
Texts == UNION {[1..n -> Tokens] : n \in 0..MaxTextLen}

ParseInit == \E t \in Texts : InitWith(FALSE, [NoParse EXCEPT !.text = t])

\* m.parseMigrationSQL(file, true).
ParseUp ==
  /\ parse.up = NotParsed
  /\ parse' = [parse EXCEPT !.up = parseMigrationSQL(parse.text, TRUE)]
  /\ UNCHANGED <<dir, proc, runs, concurrent, edited, seedVars, pair, spair, dialect>>
  /\ DBUnchanged

\* m.parseMigrationSQL(file, false).
ParseDown ==
  /\ parse.down = NotParsed
  /\ parse' = [parse EXCEPT !.down = parseMigrationSQL(parse.text, FALSE)]
  /\ UNCHANGED <<dir, proc, runs, concurrent, edited, seedVars, pair, spair, dialect>>
  /\ DBUnchanged

ParseNext == ParseUp \/ ParseDown

ParseSpec == ParseInit /\ [][ParseNext]_vars

\* ----------------------------------------------------------------- dialect
\* The values of DB_DRIVER tried: the supported identifiers, the empty
\* string, and two that no branch names.
Drivers ==
  {"mysql", "postgres", "sqlite", "sqlite3", "sqlserver", "mssql", "", "oracle", "Postgres"}

\* The largest parameter position tried.
MaxPosition == 12

\* getDBDriver: DB_DRIVER as it is for a nil db, else DB_DRIVER with "mysql"
\* in place of the empty string.
getDBDriver(dbNil, env) ==
  IF dbNil THEN env
  ELSE IF env = "" THEN "mysql" ELSE env

\* %d of fmt.Sprintf for a position >= 0: the decimal digits, most
\* significant first.
DigitChar(d) == <<"0", "1", "2", "3", "4", "5", "6", "7", "8", "9">>[d + 1]

RECURSIVE Digits(_)
Digits(n) ==
  IF n < 10 THEN <<DigitChar(n)>>
  ELSE Digits(n \div 10) \o <<DigitChar(n % 10)>>

\* placeholder that counts the positions from 0.
placeholderZeroBased(driver, position) ==
  CASE driver = "postgres" -> <<"$">> \o Digits(position - 1)
    [] driver \in {"sqlserver", "mssql"} -> <<"@", "p">> \o Digits(position - 1)
    [] OTHER -> <<"?">>

\* placeholder(position), as a sequence of characters.
placeholder(driver, position) ==
  CASE driver = "postgres" -> <<"$">> \o Digits(position)
    [] driver \in {"sqlserver", "mssql"} -> <<"@", "p">> \o Digits(position)
    [] OTHER -> <<"?">>

\* The switch of EnsureMigrationsTable, of ensureLockTable and of
\* getMigrationTemplate: each branch is named by the type of its id column.
migrationsDDL(driver) ==
  CASE driver = "postgres" -> "SERIAL"
    [] driver \in {"sqlite", "sqlite3"} -> "AUTOINCREMENT"
    [] driver \in {"sqlserver", "mssql"} -> "IDENTITY(1,1)"
    [] OTHER -> "AUTO_INCREMENT"

lockDDL(driver) ==
  CASE driver = "postgres" -> "SERIAL"
    [] driver \in {"sqlite", "sqlite3"} -> "AUTOINCREMENT"
    [] driver \in {"sqlserver", "mssql"} -> "IDENTITY(1,1)"
    [] OTHER -> "AUTO_INCREMENT"

getMigrationTemplate(driver) ==
  CASE driver = "postgres" -> "SERIAL"
    [] driver \in {"sqlite", "sqlite3"} -> "AUTOINCREMENT"
    [] driver \in {"sqlserver", "mssql"} -> "IDENTITY(1,1)"
    [] OTHER -> "AUTO_INCREMENT"

DialectUnchanged ==
  /\ UNCHANGED <<dir, proc, runs, concurrent, edited, parse, seedVars, pair, spair>>
  /\ DBUnchanged

\* migration.New(db) under some value of DB_DRIVER.
DialectNew ==
  /\ dialect.driver = "unset"
  /\ dialect' = [dialect EXCEPT !.driver = getDBDriver(dialect.dbNil, dialect.env)]
  /\ DialectUnchanged

\* m.placeholder(position).
DialectPlaceholder ==
  /\ dialect.driver # "unset" /\ dialect.ph = <<>>
  /\ dialect' = [dialect EXCEPT !.ph = placeholder(dialect.driver, dialect.position)]
  /\ DialectUnchanged

\* The statements EnsureMigrationsTable builds for the two tables.
DialectEnsure ==
  /\ dialect.driver # "unset" /\ dialect.ddl = "none"
  /\ dialect' = [dialect EXCEPT !.ddl = migrationsDDL(dialect.driver),
                                !.lockDdl = lockDDL(dialect.driver)]
  /\ DialectUnchanged

\* The scaffold MakeMigration writes.
DialectTemplate ==
  /\ dialect.driver # "unset" /\ dialect.tmpl = "none"
  /\ dialect' = [dialect EXCEPT !.tmpl = getMigrationTemplate(dialect.driver)]
  /\ DialectUnchanged

DialectInit ==
  \E e \in Drivers, nil \in BOOLEAN, n \in 1..MaxPosition :
    InitAll(FALSE, NoParse, [NoDialect EXCEPT !.env = e, !.dbNil = nil, !.position = n])

DialectNext == DialectNew \/ DialectPlaceholder \/ DialectEnsure \/ DialectTemplate

DialectSpec == DialectInit /\ [][DialectNext]_vars

\* ------------------------------------------- the dialect of the two packages
\* The switch of EnsureSeedersTable, each branch named by the type of its id
\* column.
seedersDDL(driver) ==
  CASE driver = "postgres" -> "SERIAL"
    [] driver \in {"sqlite", "sqlite3"} -> "AUTOINCREMENT"
    [] driver \in {"sqlserver", "mssql"} -> "IDENTITY(1,1)"
    [] OTHER -> "AUTO_INCREMENT"

\* The parameter of the INSERT INTO seeders of recordSeeder, AutoSeed and
\* RunWithTracking.
recordPlaceholder(driver) ==
  CASE driver = "postgres" -> <<"$", "1">>
    [] driver \in {"sqlserver", "mssql"} -> <<"@", "p", "1">>
    [] OTHER -> <<"?">>

\* What SELECT version() can give on the database DB_DRIVER names: a text
\* naming postgres on postgres only, another text, or an error.
Versions(env) == IF env = "postgres" THEN {"postgres", "fail"} ELSE {"other", "fail"}

\* seeder.New(db) on the connection of connectDB.
DriverSeederNew ==
  /\ dialect.sdriver = "unset"
  /\ dialect' = [dialect EXCEPT !.sdriver = seederGetDBDriver(dialect.dbNil, dialect.select1,
                                                               dialect.version)]
  /\ DialectUnchanged

\* The statement EnsureSeedersTable builds.
DriverSeederEnsure ==
  /\ dialect.sdriver # "unset" /\ dialect.sddl = "none"
  /\ dialect' = [dialect EXCEPT !.sddl = seedersDDL(dialect.sdriver)]
  /\ DialectUnchanged

\* The INSERT INTO seeders the Seeder builds.
DriverSeederRecord ==
  /\ dialect.sdriver # "unset" /\ dialect.sph = <<>>
  /\ dialect' = [dialect EXCEPT !.sph = recordPlaceholder(dialect.sdriver)]
  /\ DialectUnchanged

\* A Migration and a Seeder built on one open connection under one value of
\* DB_DRIVER; SELECT 1 and SELECT version() answer or fail.
DriverInit ==
  \E e \in Drivers, sel \in BOOLEAN :
    \E v \in Versions(e) :
      InitAll(FALSE, NoParse, [NoDialect EXCEPT !.env = e, !.select1 = sel, !.version = v])

DriverNext ==
  \/ DialectNext
  \/ DriverSeederNew
  \/ DriverSeederEnsure
  \/ DriverSeederRecord

DriverSpec == DriverInit /\ [][DriverNext]_vars

\* ------------------------------------------------------------------ claims
Migrating(p) == proc[p].op \in {"Migrate", "AutoMigrate"}

StmtSet(seq) == {seq[i] : i \in 1..Len(seq)}
\* The statements of a file, in its first or in its rewritten text.
UpStmts(n) ==
  StmtSet(parseMigrationSQL(Content(n), TRUE).stmts)
    \cup StmtSet(parseMigrationSQL(Rewritten(n), TRUE).stmts)
DownStmts(n) ==
  StmtSet(parseMigrationSQL(Content(n), FALSE).stmts)
    \cup StmtSet(parseMigrationSQL(Rewritten(n), FALSE).stmts)
RowsOf(rows, n) == {r \in rows : r.name = n}

\* The files a run would discover at its start that the ledger did not name.
StartPending(p) ==
  {n \in MigrationNames \cap proc[p].startDir : RowsOf(proc[p].startLedger, n) = {}}

\* The runs that returned because the lock or a call made before the first
\* file failed, or that were killed.
EnvFault(p) ==
  proc[p].ret.kind \in {"lock_check", "already_running", "acquire", "migrated_list",
                        "next_batch", "files", "crash"}
\* The runs that got past acquireLock and returned.
Returned(p) ==
  /\ proc[p].pc = "done"
  /\ proc[p].ret.kind \notin {"lock_check", "already_running", "acquire", "crash"}

\* C1: at most one Migrate/AutoMigrate run at a time is between its
\* successful acquireLock and its releaseLock.
C1_MutualExclusion == Cardinality({p \in Procs : Holding(p)}) <= 1

\* C2: in every state of a Migrate/AutoMigrate run, each file has either all
\* of its UP statements committed once more than at the start of the run
\* together with a new ledger row (name, batch of the run), or none of its UP
\* statements committed anew and no new row; a file whose statement, ledger
\* insert or commit failed is in the second case.
C2_FileAtomicity ==
  \A p \in Procs : Migrating(p) =>
    /\ \A n \in MigrationNames :
         LET new == RowsOf(ledger \ proc[p].startLedger, n)
         IN \/ /\ new = {}
               /\ \A s \in UpStmts(n) : executed[s] = proc[p].startExec[s]
            \/ /\ Cardinality(new) = 1
               /\ \A r \in new : r.batch = proc[p].batch
               /\ \A s \in UpStmts(n) : executed[s] = proc[p].startExec[s] + 1
    /\ proc[p].ret.kind \in {"run", "record", "commit"} =>
         /\ RowsOf(ledger, proc[p].ret.file) = {}
         /\ \A s \in UpStmts(proc[p].ret.file) : executed[s] = proc[p].startExec[s]

\* C2 witness: the second statement of a two-statement file failed, after the
\* first had run in the transaction.
C2_Witness ==
  \E p \in Procs :
    /\ Migrating(p) /\ proc[p].pc = "done" /\ proc[p].ret.kind = "run"
    /\ Len(proc[p].stmts) = 2 /\ proc[p].si = 2

\* C3: every ledger row created by one Migrate invocation carries the batch
\* number MAX(batch) of the ledger at the start of the run plus 1, or 1 if the
\* ledger was empty, which exceeds every batch number present before the run.
C3_BatchGrouping ==
  \A p \in Procs : Migrating(p) =>
    \A r \in ledger \ proc[p].startLedger :
      /\ r.batch = IF proc[p].startLedger = {} THEN 1
                   ELSE Max({q.batch : q \in proc[p].startLedger}) + 1
      /\ \A q \in proc[p].startLedger : q.batch < r.batch

\* C3 witness: a run that found a non-empty ledger has recorded a file.
C3_Witness ==
  \E p \in Procs :
    /\ Migrating(p) /\ proc[p].pc = "done" /\ proc[p].ret.kind = "ok"
    /\ proc[p].startLedger # {}
    /\ ledger \ proc[p].startLedger # {}

\* C4: a successful Rollback removes exactly the rows of the highest batch of
\* the ledger at the start of the call and leaves every other row unchanged;
\* when the ledger is empty and lastBatch was read, it returns success and
\* changes nothing.
C4_RollbackFrame ==
  \A p \in Procs :
    (proc[p].op = "Rollback" /\ proc[p].pc = "done") =>
      /\ proc[p].ret.kind = "ok" =>
           ledger = {r \in proc[p].startLedger :
                       \E q \in proc[p].startLedger : q.batch > r.batch}
      /\ (proc[p].startLedger = {} /\ proc[p].ret.kind # "last_batch") =>
           /\ proc[p].ret.kind = "ok"
           /\ ledger = {}
           /\ executed = proc[p].startExec

\* C4 witness: a successful Rollback of a ledger with two batches.
C4_Witness ==
  \E p \in Procs :
    /\ proc[p].op = "Rollback" /\ proc[p].pc = "done" /\ proc[p].ret.kind = "ok"
    /\ Cardinality({r.batch : r \in proc[p].startLedger}) = 2
    /\ ledger # {}

\* C5: Rollback processes the migrations of the targeted batch
\* last-applied-first: a row of the batch is deleted, and its DOWN statements
\* run, only after every row of the batch with a larger id is gone.
C5_LastAppliedFirst ==
  \A p \in Procs : proc[p].op = "Rollback" =>
    \A gone \in proc[p].startLedger \ ledger :
      \A r \in ledger : r.batch = gone.batch => r.id < gone.id

\* C6: a Migrate/AutoMigrate run started when every discovered file name is
\* in the ledger executes no statement, creates no ledger row, does not change
\* the ledger (so the next batch number stays what it was), and returns
\* success unless the lock or a call made before the loop over the files
\* failed.
C6_IdempotentApply ==
  \A p \in Procs :
    (Migrating(p) /\ StartPending(p) = {}) =>
      /\ executed = proc[p].startExec
      /\ ledger = proc[p].startLedger
      /\ (proc[p].pc = "done" /\ ~EnvFault(p)) => proc[p].ret.kind = "ok"

\* C6 witness: such a run, over a ledger that names two files, returned nil.
C6_Witness ==
  \E p \in Procs :
    /\ Migrating(p) /\ proc[p].pc = "done" /\ proc[p].ret.kind = "ok"
    /\ StartPending(p) = {}
    /\ Cardinality(proc[p].startLedger) = 2
    /\ Len(proc[p].files) = 2

C8_LockExclusion ==
  /\ [](\A p \in Procs :
          (proc[p].pc = "done" /\ proc[p].ret.kind = "already_running") =>
            /\ lock = Locked
            /\ ledger = proc[p].startLedger
            /\ executed = proc[p].startExec)
  /\ [][\A p \in Procs :
          (proc[p].pc = "acquire" /\ proc'[p].pc # "acquire") =>
            IF lock.locked
              THEN /\ proc'[p].pc = "done"
                   /\ proc'[p].ret.kind = "already_running"
                   /\ lock' = lock
              ELSE proc'[p].ret.kind # "already_running"]_vars

\* C8 witness: a run found the lock held and returned 'already running'.
C8_Witness ==
  \E p \in Procs :
    /\ Migrating(p) /\ proc[p].pc = "done" /\ proc[p].ret.kind = "already_running"
    /\ lock = Locked

\* C9: when pending file k of a run fails to parse or to execute, the error
\* names k, every pending file before k has its row under the run's batch, k
\* has no row and none of its statements committed, and no pending file after
\* k has a row or a statement committed.
C9_HaltAtFirstFailure ==
  \A p \in Procs :
    (Migrating(p) /\ proc[p].pc \in {"release", "done"}
       /\ proc[p].ret.kind \in {"parse", "run"}) =>
      LET files == proc[p].files
          k == proc[p].i
          pending(j) == RowsOf(proc[p].startLedger, files[j]) = {}
          untouched(n) ==
            /\ RowsOf(ledger, n) = {}
            /\ \A s \in UpStmts(n) : executed[s] = proc[p].startExec[s]
      IN /\ k \in 1..Len(files)
         /\ proc[p].ret.file = files[k]
         /\ pending(k)
         /\ untouched(files[k])
         /\ \A j \in 1..(k - 1) : pending(j) =>
              \E r \in ledger : /\ r.name = files[j]
                                /\ r.batch = proc[p].batch
                                /\ r \notin proc[p].startLedger
         /\ \A j \in (k + 1)..Len(files) : pending(j) => untouched(files[j])

\* C9 witness: the second of three pending files failed.
C9_Witness ==
  \E p \in Procs :
    /\ Migrating(p) /\ proc[p].pc = "done" /\ proc[p].ret.kind = "run"
    /\ proc[p].i = 2 /\ Len(proc[p].files) = 3
    /\ proc[p].startLedger = {}
    /\ Cardinality(ledger) = 1

\* C10: under any interleaving of two Migrate/AutoMigrate runs, each file's
\* UP statements are committed at most once and the file gets at most one
\* ledger row.
C10_NoDoubleApply ==
  (\A p \in Procs : proc[p].op # "Rollback") =>
    \A n \in MigrationNames :
      /\ Cardinality(RowsOf(ledger, n)) <= 1
      /\ \A s \in UpStmts(n) : executed[s] <= 1

\* The rows of the batch a Rollback run targets: the highest batch of the
\* ledger at its start.
Targeted(p) ==
  {r \in proc[p].startLedger : \A q \in proc[p].startLedger : q.batch <= r.batch}

\* Whether a text has both markers.
HasMarkers(text) == \E i, j \in 1..Len(text) : text[i] = "UP" /\ text[j] = "DOWN"

\* C11: when runs do not overlap, no migration name occurs in more than one
\* ledger row and every row's batch is at least 1.
C11_UniqueNames ==
  /\ \A r1, r2 \in ledger : r1.name = r2.name => r1 = r2
  /\ \A r \in ledger : r.batch >= 1

\* C11 witness: a run that failed part-way left a ledger of two batches.
C11_Witness ==
  \E p \in Procs :
    /\ Migrating(p) /\ proc[p].pc = "done" /\ proc[p].ret.kind \in {"parse", "run"}
    /\ proc[p].startLedger # {}
    /\ ledger \ proc[p].startLedger # {}

\* C12: when a row of the targeted batch names a migration whose file is not
\* in the directory, Rollback executes no statement for it, returns no error
\* that names it other than a failure of the DELETE itself, and, when the
\* run returns nil, has deleted its row along with the rest of the batch.
C12_TolerantRollback ==
  \A p \in Procs : proc[p].op = "Rollback" =>
    \A r \in Targeted(p) : r.name \notin proc[p].startDir =>
      /\ \A s \in DownStmts(r.name) \cup UpStmts(r.name) :
           executed[s] = proc[p].startExec[s]
      /\ proc[p].ret.file = r.name => proc[p].ret.kind = "delete"
      /\ (proc[p].pc = "done" /\ proc[p].ret.kind = "ok") =>
           \A q \in Targeted(p) : q \notin ledger

\* C12 witness: a Rollback returned nil for a batch of two migrations, one
\* with its file missing, the other with its DOWN statements run.
C12_Witness ==
  \E p \in Procs :
    /\ proc[p].op = "Rollback" /\ proc[p].pc = "done" /\ proc[p].ret.kind = "ok"
    /\ Cardinality(Targeted(p)) = 2
    /\ \E r \in Targeted(p) : r.name \notin proc[p].startDir
    /\ executed # proc[p].startExec
    /\ ledger = proc[p].startLedger \ Targeted(p)

\* C13: when a DOWN statement of migration M fails, Rollback returns an error
\* naming M; the ledger is the ledger of the start without the rows of the
\* migrations processed before M, so M's row and the rows not yet processed
\* remain; the DOWN statements of M that ran before the failing one stay
\* applied, the others have not run; and the highest batch of the ledger is
\* still the targeted one, so the next Rollback targets it again.
C13_RollbackFailure ==
  \A p \in Procs :
    (proc[p].op = "Rollback" /\ proc[p].pc = "done" /\ proc[p].ret.kind = "rollback") =>
      LET M == proc[p].ret.file
      IN /\ M = proc[p].files[proc[p].i]
         /\ \E r \in Targeted(p) : r.name = M /\ r \in ledger
         /\ \A n \in StmtSet(proc[p].ran) : \E r \in Targeted(p) : r.name = n
         /\ ledger = {r \in proc[p].startLedger : r.name \notin StmtSet(proc[p].ran)}
         /\ \A j \in 1..Len(proc[p].stmts) :
              executed[proc[p].stmts[j]] =
                proc[p].startExec[proc[p].stmts[j]] + (IF j < proc[p].si THEN 1 ELSE 0)
         /\ \A r \in ledger : r.batch <= proc[p].batch
         /\ \E r \in ledger : r.batch = proc[p].batch

\* C13 witness: the second DOWN statement of a migration failed, and another
\* row of the batch is still to be processed.
C13_Witness ==
  \E p \in Procs :
    /\ proc[p].op = "Rollback" /\ proc[p].pc = "done" /\ proc[p].ret.kind = "rollback"
    /\ proc[p].si = 2
    /\ Cardinality({r \in ledger : r.batch = proc[p].batch}) = 2

\* Byte-wise lexicographic order, stated by the first position where two
\* strings differ.
ByteLess(s, t) ==
  \E k \in 1..(Len(t)) :
    /\ \A j \in 1..(k - 1) : j <= Len(s) /\ s[j] = t[j]
    /\ \/ k = Len(s) + 1
       \/ k <= Len(s) /\ CharOrd[s[k]] < CharOrd[t[k]]

\* C16: when runs do not overlap, a Migrate run applies pending files in
\* ascending byte-wise order of their names without passing over a pending
\* file, never applies a hidden file, a directory or a *.go file, and within
\* one batch the ledger ids increase with the names.
C16_LexicographicOrder ==
  /\ \A p \in Procs : Migrating(p) =>
       /\ \A j, k \in 1..Len(proc[p].ran) :
            j < k => ByteLess(proc[p].ran[j], proc[p].ran[k])
       /\ \A j \in 1..Len(proc[p].ran) :
            /\ proc[p].ran[j] \in StartPending(p)
            /\ \A n \in StartPending(p) :
                 ByteLess(n, proc[p].ran[j]) => \E k \in 1..(j - 1) : proc[p].ran[k] = n
  /\ \A r1, r2 \in ledger :
       (r1.batch = r2.batch /\ r1.id < r2.id) => ByteLess(r1.name, r2.name)
  /\ \A r \in ledger : r.name \notin {HiddenName, GoName, DirName}

\* C16 witness: a run applied two files in one batch from a directory that
\* also holds a hidden file or a *.go file.
C16_Witness ==
  \E p \in Procs :
    /\ Migrating(p) /\ proc[p].pc = "done"
    /\ Len(proc[p].ran) = 2
    /\ \E r1, r2 \in ledger : r1.batch = r2.batch /\ r1.id < r2.id
    /\ {HiddenName, GoName} \cap proc[p].startDir # {}

\* C18: a Migrate run opens a transaction only for a file with both markers;
\* for a pending file lacking a marker it executes no statement and records
\* no row, returns nil only when no pending file lacks one, and a parse
\* error it returns names a pending file lacking one.  A Rollback run executes
\* DOWN statements only for a file with both markers, never deletes the row
\* of a targeted migration whose file is present and lacks a marker, and a
\* parse error it returns names such a migration.
C18_MissingMarker ==
  \A p \in Procs :
    /\ Migrating(p) =>
         /\ proc[p].pc \in {"exec", "commit"} => HasMarkers(Text(proc[p].files[proc[p].i]))
         /\ \A n \in StartPending(p) : ~HasMarkers(Text(n)) =>
              /\ RowsOf(ledger, n) = {}
              /\ \A s \in UpStmts(n) : executed[s] = proc[p].startExec[s]
              /\ ~(proc[p].pc = "done" /\ proc[p].ret.kind = "ok")
         /\ proc[p].ret.kind = "parse" =>
              /\ proc[p].ret.file \in StartPending(p)
              /\ ~HasMarkers(Text(proc[p].ret.file))
              /\ proc[p].txStmts = <<>> /\ proc[p].txRow = NoRow
    /\ proc[p].op = "Rollback" =>
         /\ proc[p].pc = "rb_exec" => HasMarkers(Text(proc[p].files[proc[p].i]))
         /\ \A r \in Targeted(p) :
              (r.name \in proc[p].startDir /\ ~HasMarkers(Text(r.name))) =>
                /\ r \in ledger
                /\ \A s \in DownStmts(r.name) : executed[s] = proc[p].startExec[s]
         /\ proc[p].ret.kind = "parse" =>
              /\ \E r \in Targeted(p) : r.name = proc[p].ret.file /\ r \in ledger
              /\ proc[p].ret.file \in proc[p].startDir
              /\ ~HasMarkers(Text(proc[p].ret.file))

\* C18 witness: a Rollback returned a parse error for a recorded migration
\* whose file lost its DOWN marker, and the row is still in the ledger.
C18_Witness ==
  \E p \in Procs :
    /\ proc[p].op = "Rollback" /\ proc[p].pc = "done" /\ proc[p].ret.kind = "parse"
    /\ RowsOf(ledger, proc[p].ret.file) # {}
    /\ proc[p].ret.file \in edited

\* The names a report or a status list carries, in its order.
OutNames(p) == [j \in 1..Len(proc[p].out) |-> proc[p].out[j].name]
Ascending(names) == \A j, k \in 1..Len(names) : j < k => ByteLess(names[j], names[k])

\* The part of C14 about the report and the state of a DryRun call.
C14_Report ==
  \A p \in Procs : proc[p].op = "DryRun" =>
    /\ ledger = proc[p].startLedger
    /\ executed = proc[p].startExec
    /\ Ascending(OutNames(p))
    /\ \A j \in 1..Len(proc[p].out) :
         /\ proc[p].out[j].name \in StartPending(p)
         /\ \A r \in proc[p].startLedger : r.batch < proc[p].out[j].batch
         /\ \/ proc[p].out[j].batch = 1
            \/ \E r \in proc[p].startLedger : r.batch + 1 = proc[p].out[j].batch
    /\ (proc[p].pc = "done" /\ proc[p].ret.kind = "ok") =>
         /\ StmtSet(OutNames(p)) = StartPending(p)
         /\ Len(proc[p].out) = Cardinality(StartPending(p))
    /\ proc[p].ret.kind = "parse" =>
         StmtSet(OutNames(p)) = {n \in StartPending(p) : ByteLess(n, proc[p].ret.file)}

\* The part of C14 about the steps of a DryRun call.
C14_Step ==
  \A p \in Procs : (proc[p].op = "DryRun" /\ proc'[p].op = "DryRun") =>
    /\ ledger' = ledger
    /\ nextId' = nextId
    /\ lock' = lock
    /\ executed' = executed

\* C14: a DryRun call that returns nil has reported exactly the discovered
\* files whose names the ledger does not hold, each once, in ascending order,
\* with the batch after the highest one in the ledger; a call that returns a
\* parse error has reported those before the file it names; and no step of a
\* DryRun call changes the ledger rows, the lock row's values or the count of
\* any executed statement.
C14_DryRunPurity == [] C14_Report /\ [][C14_Step]_vars

\* C14 witness: a DryRun returned nil with one pending file reported for
\* batch 2 while the ledger holds a row whose file is in the directory and
\* the lock row is there.
C14_Witness ==
  \E p \in Procs :
    /\ proc[p].op = "DryRun" /\ proc[p].pc = "done" /\ proc[p].ret.kind = "ok"
    /\ Len(proc[p].out) = 1 /\ proc[p].out[1].batch = 2
    /\ \E r \in ledger : r.name \in dir

\* C15: a Status call that returns nil has one entry per discovered file, in
\* ascending order of the names; an entry has Migrated = true and the row's
\* batch when the ledger holds a row of that name, and Migrated = false and
\* Batch = 0 when it does not; a row whose file is not discovered has no
\* entry; and the ledger rows are those of the start of the call.
C15_StatusCorrect ==
  \A p \in Procs : proc[p].op = "Status" =>
    /\ ledger = proc[p].startLedger
    /\ (proc[p].pc = "done" /\ proc[p].ret.kind = "ok") =>
         LET names == [j \in 1..Len(proc[p].out) |-> proc[p].out[j].Name]
         IN /\ StmtSet(names) = MigrationNames \cap proc[p].startDir
            /\ Ascending(names)
            /\ \A j \in 1..Len(proc[p].out) :
                 LET e == proc[p].out[j]
                 IN /\ e.Migrated <=> \E r \in ledger : r.name = e.Name
                    /\ e.Migrated => \E r \in ledger : r.name = e.Name /\ r.batch = e.Batch
                    /\ ~e.Migrated => e.Batch = 0
            /\ \A r \in ledger : r.name \notin proc[p].startDir =>
                 \A j \in 1..Len(names) : names[j] # r.name

\* C15 witness: a Status call returned an entry of a migrated file with an id
\* other than its batch and an entry of a file not migrated, while the
\* ledger holds a row whose file is gone.
C15_Witness ==
  \E p \in Procs :
    /\ proc[p].op = "Status" /\ proc[p].pc = "done" /\ proc[p].ret.kind = "ok"
    /\ \E j, k \in 1..Len(proc[p].out) : proc[p].out[j].Migrated /\ ~proc[p].out[k].Migrated
    /\ \E r \in ledger : r.name \notin dir

Min(S) == CHOOSE x \in S : \A y \in S : x <= y

\* The first position of a token in a text that holds it.
FirstAt(text, tok) ==
  CHOOSE i \in 1..Len(text) : text[i] = tok /\ \A j \in 1..(i - 1) : text[j] # tok

\* A text whose first --UP-- marker comes before its first --DOWN-- marker.
WellFormed(text) ==
  /\ HasMarkers(text)
  /\ FirstAt(text, "UP") < FirstAt(text, "DOWN")

UpSection(text) == SubSeq(text, FirstAt(text, "UP") + 1, FirstAt(text, "DOWN") - 1)
DownSection(text) == SubSeq(text, FirstAt(text, "DOWN") + 1, Len(text))

\* The fragments of a section, each as the pair of the separator positions
\* around it (0 and Len + 1 stand for the two ends), and the positions of a
\* fragment that are not whitespace.
Cuts(sec) == {0, Len(sec) + 1} \cup {i \in 1..Len(sec) : sec[i] = ";"}
Fragments(sec) ==
  {pr \in Cuts(sec) \X Cuts(sec) :
     pr[1] < pr[2] /\ \A c \in Cuts(sec) : ~(pr[1] < c /\ c < pr[2])}
Body(sec, pr) == {i \in (pr[1] + 1)..(pr[2] - 1) : sec[i] # "ws"}
Kept(sec) ==
  {pr \in Fragments(sec) :
     Body(sec, pr) # {} /\ sec[Min(Body(sec, pr))] \notin {"cmt", "UP", "DOWN"}}

\* res is the list of the trimmed, non-empty fragments of sec that do not
\* begin with "--", in the order of the text.
IsStatementsOf(res, sec) ==
  /\ Len(res) = Cardinality(Kept(sec))
  /\ \A pr \in Kept(sec) :
       res[1 + Cardinality({q \in Kept(sec) : q[1] < pr[1]})]
         = SubSeq(sec, Min(Body(sec, pr)), Max(Body(sec, pr)))

WrittenUp(text) ==
  IF WellFormed(text) THEN {<<w>> : w \in SqlWords(UpSection(text))} ELSE {}

\* C19: a Migrate run that returns nil has executed, once, every statement
\* written in the UP section of every file that was pending at its start,
\* a statement that follows a comment line in its fragment included.
C19_AllStatementsExecute ==
  \A p \in Procs :
    (Migrating(p) /\ proc[p].pc = "done" /\ proc[p].ret.kind = "ok") =>
      \A n \in StartPending(p) : \A s \in WrittenUp(Text(n)) :
        executed[s] = proc[p].startExec[s] + 1

\* The seed files a tracked run would discover at its start that the
\* seeders table did not name.
StartUnseeded(p) ==
  {n \in SeedNames \cap sproc[p].startDir :
     \A r \in sproc[p].startSeeders : r.name # n}

SeedStmts(n) == StmtSet(parseSeederSQL(SeedContent(n)))

\* C20: a tracked run (RunWithTracking, AutoSeed) that returns nil leaves
\* every discovered seed file named in the seeders table; a tracked run that
\* starts with every discovered file named there executes no seed statement,
\* adds no row and returns nil unless a read of the table or of the
\* directory fails; and no tracked run executes a statement of, or adds a
\* row for, a file whose name was in the table at its start.
C20_TrackedIdempotent ==
  \A p \in Procs : sproc[p].op \in TrackedOps =>
    /\ (sproc[p].pc = "done" /\ sproc[p].ret.kind = "ok") =>
         \A n \in SeedNames \cap sproc[p].startDir : \E r \in seeders : r.name = n
    /\ StartUnseeded(p) = {} =>
         /\ seedExec = sproc[p].startExec
         /\ seeders = sproc[p].startSeeders
         /\ sproc[p].txStmts = <<>>
         /\ sproc[p].pc = "done" =>
              sproc[p].ret.kind \in {"ok", "ensure", "seeded_list", "files"}
    /\ \A n \in SeedNames : n \notin StartUnseeded(p) =>
         /\ \A s \in SeedStmts(n) : seedExec[s] = sproc[p].startExec[s]
         /\ {r \in seeders : r.name = n} = {r \in sproc[p].startSeeders : r.name = n}
    /\ \A r1, r2 \in seeders : r1.name = r2.name => r1 = r2

\* C20 witness: a second tracked run over two seed files, both recorded by
\* an earlier run, returned nil.
C20_Witness ==
  \E p \in Procs :
    /\ sproc[p].op \in TrackedOps /\ sproc[p].pc = "done" /\ sproc[p].ret.kind = "ok"
    /\ SeedNames \subseteq sproc[p].startDir
    /\ StartUnseeded(p) = {}
    /\ \A s \in AllSeedStmts : seedExec[s] = 1
    /\ Cardinality(seeders) = 2

\* A seed file untouched by the run of p, and a seed file seeded by it.
SeedNone(p, n) ==
  /\ \A s \in SeedStmts(n) : seedExec[s] = sproc[p].startExec[s]
  /\ {r \in seeders : r.name = n} = {r \in sproc[p].startSeeders : r.name = n}
SeedAll(p, n) ==
  /\ \A s \in SeedStmts(n) : seedExec[s] = sproc[p].startExec[s] + 1
  /\ Cardinality({r \in seeders \ sproc[p].startSeeders : r.name = n}) = 1

\* C21: in every state of a tracked run that does not overlap another, each
\* seed file has either all its statements committed once more than at the
\* start together with one new seeders row, or no statement more and no new
\* row; when the run returns because Begin, a statement, the INSERT or the
\* commit failed for file F, F has neither, the transaction is gone, the
\* unseeded files before F have both and those after F have neither.
C21_SeedAtomic ==
  \A p \in Procs : sproc[p].op \in TrackedOps =>
    /\ \A n \in SeedNames : SeedNone(p, n) \/ (n \in StartUnseeded(p) /\ SeedAll(p, n))
    /\ (sproc[p].pc = "done" /\ sproc[p].ret.kind \in {"begin", "run", "record", "commit"}) =>
         LET F == sproc[p].ret.file
         IN /\ F \in StartUnseeded(p)
            /\ SeedNone(p, F)
            /\ sproc[p].txStmts = <<>>
            /\ \A n \in StartUnseeded(p) :
                 /\ ByteLess(n, F) => SeedAll(p, n)
                 /\ ByteLess(F, n) => SeedNone(p, n)

\* C21 witness: the INSERT of the second file's row failed after its
\* statement ran in the transaction; the first file is seeded and recorded.
C21_Witness ==
  \E p \in Procs :
    /\ sproc[p].op \in TrackedOps /\ sproc[p].pc = "done"
    /\ sproc[p].ret = Ret("record", <<"b">>)
    /\ sproc[p].si = 2
    /\ SeedAll(p, <<"a">>)

\* The part of C22 about the states of a Run call.
C22_State ==
  \A p \in Procs : sproc[p].op = "Run" =>
    /\ seeders = sproc[p].startSeeders
    /\ sproc[p].seeded = {}
    /\ (sproc[p].pc = "done" /\ sproc[p].ret.kind = "ok") =>
         \A n \in SeedNames \cap sproc[p].startDir : \A s \in SeedStmts(n) :
           seedExec[s] = sproc[p].startExec[s] + 1
    /\ (sproc[p].pc = "done" /\ sproc[p].ret.kind \in {"begin", "run", "commit"}) =>
         \A n \in SeedNames \cap sproc[p].startDir : \A s \in SeedStmts(n) :
           seedExec[s] = sproc[p].startExec[s]
                           + (IF ByteLess(n, sproc[p].ret.file) THEN 1 ELSE 0)

\* The part of C22 about the steps of a Run call.
C22_Step ==
  \A p \in Procs : (sproc[p].op = "Run" /\ sproc'[p].op = "Run") =>
    /\ seeders' = seeders
    /\ seedersTable' = seedersTable
    /\ seedNextId' = seedNextId

\* C22: a Run call that returns nil has committed every statement of every
\* discovered seed file once more, whatever the seeders table holds; one
\* that fails at file F has done so for the files before F only (each file
\* its own transaction); and no step of Run reads the seeders table into
\* its locals, creates the table or changes its rows.
C22_UntrackedRun == [] C22_State /\ [][C22_Step]_vars

\* C22 witness: two Run calls after a tracked run: both files are in the
\* seeders table and every statement has been committed three times.
C22_Witness ==
  \E p \in Procs :
    /\ sproc[p].op = "Run" /\ sproc[p].pc = "done" /\ sproc[p].ret.kind = "ok"
    /\ \A n \in SeedNames : \E r \in sproc[p].startSeeders : r.name = n
    /\ \A s \in AllSeedStmts : seedExec[s] = 3

\* C23: from equal databases, locks, ledgers and files, and with the same
\* database calls failing, Migrate and AutoMigrate are at every step in the
\* same state of database, ledger and lock and return the same outcome, and
\* so are RunWithTracking and AutoSeed.
C23_SilentVariants ==
  /\ pair.a = pair.b
  /\ spair.a = spair.b

\* C23 witness: Migrate and AutoMigrate have returned with an error of a
\* statement after a first file was applied, the lock released.
C23_Witness ==
  /\ pair.a.pc = "done" /\ pair.a.ret.kind = "run" /\ Cardinality(pair.a.ledger) = 1
  /\ ~pair.a.lock.locked

\* The lock row says locked and no live run is between its acquireLock and
\* its releaseLock: the run that took the lock was killed.
Orphaned == lock.locked /\ \A p \in Procs : ~Holding(p)

\* C24: after a run was killed between its acquireLock and its releaseLock,
\* no step of any command changes the lock row, and every Migrate/AutoMigrate
\* run that returns does so with the 'already running' error, the ledger, the
\* next id and the executed statements being what they were at its start.
C24_NoLockExpiry ==
  [][Orphaned =>
       /\ lock' = lock
       /\ \A p \in Procs :
            (Migrating(p) /\ proc[p].pc # "done" /\ proc'[p].pc = "done") =>
              /\ proc'[p].ret.kind = "already_running"
              /\ ledger' = proc[p].startLedger
              /\ executed' = proc[p].startExec
              /\ nextId' = nextId]_vars

\* C24 witness: a run was killed holding the lock, and a later run over a
\* ledger that is not empty returned 'already running'.
C24_Witness ==
  \E p \in Procs :
    /\ Migrating(p) /\ proc[p].pc = "done" /\ proc[p].ret.kind = "already_running"
    /\ Orphaned
    /\ proc[p].startLedger # {}

\* C25: the migration_lock table never holds more than one row, and holds
\* exactly one whenever a caller is past its EnsureMigrationsTable call.
C25_SingleLockRow ==
  /\ lockRows <= 1
  /\ \A p \in Procs :
       proc[p].pc \notin {"idle", "ensure", "ensure_insert", "rb_last"} /\ proc[p].op # "Rollback"
         => lockRows >= 1 \/ proc[p].pc = "done"

\* C26: when a command of the engine (Migrate, AutoMigrate, Rollback, Status,
\* DryRun) has returned, the ledger tables exist: a command that found no
\* table created them.
C26_SelfHealingSchema ==
  \A p \in Procs :
    (proc[p].pc = "done" /\ proc[p].op \in Ops \cup ReadOps) => tablesExist

\* The number of statements equal to s among the fragments of a section that
\* are kept as statements.
KeptCount(sec, s) ==
  Cardinality({pr \in Kept(sec) : SubSeq(sec, Min(Body(sec, pr)), Max(Body(sec, pr))) = s})

\* C27: MigrateFile never changes the migrations ledger or the next id, and
\* when it returns nil each UP statement of the given file has been executed
\* once more than before the call, whether or not the ledger names the file.
C27_MigrateFile ==
  \A p \in Procs :
    proc[p].op = "MigrateFile" =>
      /\ ledger = proc[p].startLedger
      /\ getNextBatch(ledger) = getNextBatch(proc[p].startLedger)
      /\ (proc[p].pc = "done" /\ proc[p].ret.kind = "ok") =>
           LET text == Text(proc[p].files[1])
           IN /\ WellFormed(text)
              /\ \A s \in AllStmts :
                   executed[s] = proc[p].startExec[s] + KeptCount(UpSection(text), s)

\* C27 witness: MigrateFile returned nil for a file that the ledger names,
\* and the file's statements have now been executed twice.
C27_Witness ==
  \E p \in Procs :
    /\ proc[p].op = "MigrateFile" /\ proc[p].pc = "done" /\ proc[p].ret.kind = "ok"
    /\ RowsOf(ledger, proc[p].files[1]) # {}
    /\ \A s \in UpStmts(proc[p].files[1]) : executed[s] = 2

\* The number a sequence of decimal digits denotes, and the sequences that
\* are the decimal notation of a number: digits only, no leading zero.
DigitValue(c) == CHOOSE d \in 0..9 : DigitChar(d) = c

RECURSIVE DecimalValue(_)
DecimalValue(ds) ==
  IF ds = <<>> THEN 0
  ELSE 10 * DecimalValue(SubSeq(ds, 1, Len(ds) - 1)) + DigitValue(ds[Len(ds)])

IsDecimalOf(ds, n) ==
  /\ Len(ds) >= 1
  /\ \A i \in 1..Len(ds) : \E d \in 0..9 : DigitChar(d) = ds[i]
  /\ Len(ds) > 1 => ds[1] # "0"
  /\ DecimalValue(ds) = n

NamedDrivers == {"mysql", "postgres", "sqlite", "sqlite3", "sqlserver", "mssql"}

\* C28: the placeholder of position n is "?" for mysql, sqlite and sqlite3,
\* "$" followed by n in decimal for postgres, "@p" followed by n in decimal
\* for sqlserver and mssql; under every other driver identifier, the empty
\* string included, the placeholder, the two CREATE TABLE statements and the
\* scaffold are those of mysql.
C28_DialectMapping ==
  LET d == dialect.driver
      n == dialect.position
      ph == dialect.ph
  IN /\ ph # <<>> =>
          /\ d \in {"mysql", "sqlite", "sqlite3"} => ph = <<"?">>
          /\ d = "postgres" => Head(ph) = "$" /\ IsDecimalOf(Tail(ph), n)
          /\ d \in {"sqlserver", "mssql"} =>
               /\ Len(ph) > 2 /\ SubSeq(ph, 1, 2) = <<"@", "p">>
               /\ IsDecimalOf(SubSeq(ph, 3, Len(ph)), n)
          /\ d \notin NamedDrivers => ph = <<"?">>
     /\ (dialect.ddl # "none" /\ d \notin NamedDrivers) =>
          /\ dialect.ddl = "AUTO_INCREMENT"
          /\ dialect.lockDdl = "AUTO_INCREMENT"
     /\ (dialect.tmpl # "none" /\ d \notin NamedDrivers) => dialect.tmpl = "AUTO_INCREMENT"

\* C28 witness: a Migration built under DB_DRIVER=postgres gave "$12" for
\* position 12.
C28_Witness ==
  /\ dialect.driver = "postgres" /\ dialect.position = 12
  /\ dialect.ph = <<"$", "1", "2">>
  /\ dialect.ddl = "SERIAL"

\* The batch numbers of a ledger, and its n highest.
Batches(rows) == {r.batch : r \in rows}

RECURSIVE TopBatches(_, _)
TopBatches(bs, n) ==
  IF n = 0 \/ bs = {} THEN {}
  ELSE {Max(bs)} \cup TopBatches(bs \ {Max(bs)}, n - 1)

\* A `migrate:rollback --step=N` command whose calls so far all returned nil.
RollbackCommand(p) == proc[p].cmd = "rollback"

\* C30: in `migrate:rollback --step=N`, when call number j has returned nil
\* the ledger is the ledger of the start of the command without the rows of
\* its min(j, k) highest batches, k being the number of its batches (so after
\* the N-th call exactly the min(N, k) highest batches are gone); a call made
\* when the ledger is empty changes nothing and returns nil unless its query
\* fails; and after a call that returned an error no further call is made.
C30_RollbackSteps ==
  /\ [](\A p \in Procs :
          RollbackCommand(p) =>
            /\ proc[p].call \in 1..proc[p].steps
            /\ (proc[p].pc = "done" /\ proc[p].ret.kind = "ok") =>
                 ledger = {r \in proc[p].cmdLedger :
                             r.batch \notin TopBatches(Batches(proc[p].cmdLedger),
                                                       proc[p].call)}
            /\ proc[p].startLedger = {} =>
                 /\ ledger = {} /\ executed = proc[p].startExec
                 /\ proc[p].pc = "done" => proc[p].ret.kind \in {"ok", "last_batch"})
  /\ [][\A p \in Procs :
          (RollbackCommand(p) /\ proc[p].pc = "done" /\ proc[p].ret.kind # "ok") =>
            proc'[p].call # proc[p].call + 1]_vars

\* C30 witness: --step=3 over a ledger of two batches; the third call has
\* returned nil and the ledger is empty.
C30_Witness ==
  \E p \in Procs :
    /\ RollbackCommand(p) /\ proc[p].steps = 3 /\ proc[p].call = 3
    /\ proc[p].pc = "done" /\ proc[p].ret.kind = "ok"
    /\ Cardinality(Batches(proc[p].cmdLedger)) = 2
    /\ ledger = {}

\* The names recorded in a set of rows of the seeders table.
SeederNames(rows) == {r.name : r \in rows}

\* C29: no step of any command (Run, RunFile, RunWithTracking, AutoSeed,
\* Migrate, Rollback, migrate:fresh) removes a row of the seeders table, and
\* a tracked run executes no statement of a seed file whose name the table
\* held at its start, whatever the migrations ledger holds.
C29_SeederRowsKept ==
  /\ [][seeders \subseteq seeders' /\ SeederNames(seeders) \subseteq SeederNames(seeders')]_vars
  /\ [](\A p \in Procs : sproc[p].op \in TrackedOps =>
          \A n \in SeederNames(sproc[p].startSeeders) :
            /\ n \in SeederNames(seeders)
            /\ \A s \in SeedStmts(n) : seedExec[s] = sproc[p].startExec[s])

\* C29 witness: migrations were applied and all rolled back, and a tracked
\* run made afterwards skipped a seed file recorded before and returned nil.
C29_Witness ==
  \E p \in Procs :
    /\ sproc[p].op \in TrackedOps /\ sproc[p].pc = "done" /\ sproc[p].ret.kind = "ok"
    /\ sproc[p].startSeeders # {} /\ seeders = sproc[p].startSeeders
    /\ SeederNames(seeders) \subseteq sproc[p].startDir
    /\ proc[p].op = "Rollback" /\ proc[p].pc = "done" /\ proc[p].ret.kind = "ok"
    /\ proc[p].startLedger # {} /\ ledger = {}

\* A `migrate:fresh` command under way or ended.
FreshCommand(p) == proc[p].cmd = "fresh"

StrSet(seq) == {seq[i] : i \in 1..Len(seq)}

C32_NameIsIdentity ==
  \A p \in Procs : Migrating(p) =>
    /\ \A n \in MigrationNames : RowsOf(proc[p].startLedger, n) # {} =>
         /\ \A s \in UpStmts(n) : executed[s] = proc[p].startExec[s]
         /\ RowsOf(ledger, n) = RowsOf(proc[p].startLedger, n)
         /\ proc[p].ret.file # n
         /\ proc[p].pc \in {"exec", "commit"} => proc[p].files[proc[p].i] # n
    /\ (proc[p].pc = "done" /\ proc[p].ret.kind = "ok") =>
         {r.name : r \in ledger \ proc[p].startLedger} = StartPending(p)

\* C32 witness: a run returned nil having applied one file and skipped
\* another that was recorded earlier and whose text no longer parses.
C32_Witness ==
  \E p \in Procs :
    /\ Migrating(p) /\ proc[p].pc = "done" /\ proc[p].ret.kind = "ok"
    /\ <<"1", "b">> \in edited /\ <<"1", "b">> \in proc[p].startDir
    /\ RowsOf(proc[p].startLedger, <<"1", "b">>) # {}
    /\ StartPending(p) # {}

\* C33: a make:seeder with a name that is not empty does not fault, writes the
\* one file named by the argument, with the suffix _seeder appended only if
\* the argument does not end in it, whose text parses to no statement, and
\* leaves the migration ledger and the seeder ledger as they were.
MakeSeederDone(p) == sproc[p].op = "MakeSeeder" /\ sproc[p].pc = "done"

C33_MakeSeeder ==
  \A p \in Procs : MakeSeederDone(p) =>
    /\ sproc[p].ret.kind # "panic"
    /\ sproc[p].ret.kind = "ok" =>
         /\ seedDir = sproc[p].startDir \cup {sproc[p].ret.file}
         /\ HasSuffix(sproc[p].ret.file, SeederSuffix)
         /\ parseSeederSQL(SeedContent(sproc[p].ret.file)) = <<>>
    /\ seeders = sproc[p].startSeeders
    /\ ledger = {}

\* C37: parseMigrationSQL never faults: each call returns a statement list or
\* a parse error, and the UP section of a text whose first --DOWN-- marker
\* comes before its first --UP-- marker is extracted normally.
DownBeforeUp(text) == Index(text, "DOWN") > 0 /\ Index(text, "UP") > Index(text, "DOWN")

C37_ParseTotal ==
  /\ parse.up.err \in {"not_called", "none", "parse"}
  /\ parse.down.err \in {"not_called", "none", "parse"}
  /\ (DownBeforeUp(parse.text) /\ parse.up # NotParsed) => parse.up.err = "none"

\* C38: under each supported value of DB_DRIVER, a Seeder built on a
\* connection that answers builds its seeders table and its INSERT parameter
\* in the dialect in which the Migration of the same configuration builds its
\* tables and its first parameter.
C38_SameDialect ==
  (dialect.env \in NamedDrivers /\ dialect.select1 /\ dialect.driver # "unset") =>
    /\ dialect.sddl # "none" => dialect.sddl = migrationsDDL(dialect.driver)
    /\ dialect.sph # <<>> => dialect.sph = placeholder(dialect.driver, 1)

\* C34: whatever runs of Migrate, AutoMigrate and Rollback have been made one
\* after the other, failing ones and rollbacks of missing files included, the
\* batch numbers in the ledger are exactly 1, ..., MAX(batch), and none when
\* the ledger is empty.
C34_ContiguousBatches ==
  LET bs == Batches(ledger)
  IN bs = 1..(IF bs = {} THEN 0 ELSE Max(bs))

\* C34 witness: a Rollback took the row of batch 2, whose file is missing,
\* out of a ledger with the batches 1 and 2.
C34_Witness ==
  \E p \in Procs :
    /\ proc[p].op = "Rollback" /\ proc[p].pc = "done" /\ proc[p].ret.kind = "ok"
    /\ Batches(proc[p].startLedger) = {1, 2}
    /\ Batches(ledger) = {1}
    /\ \E r \in proc[p].startLedger \ ledger : r.name \notin dir

\* The calls that take no lock.
LockBlind == {"Rollback", "Status", "DryRun"}

\* C35: once the migration_lock row exists, no step of Rollback, Status or
\* DryRun changes it, whatever it holds; none of them returns a lock error;
\* and a step that changes locked, locked_at or locked_by is a step of
\* Migrate or AutoMigrate.
C35_IgnoreLock ==
  /\ [](\A p \in Procs :
          proc[p].op \in LockBlind =>
            proc[p].ret.kind \notin {"already_running", "lock_check", "acquire"})
  /\ [][\A p \in Procs :
          (proc[p].op \in LockBlind /\ proc'[p].op = proc[p].op /\ proc'[p] # proc[p]
             /\ lockRows >= 1) =>
            /\ lock' = lock
            /\ lockRows' = lockRows]_vars
  /\ [][lock' # lock =>
          \E p \in Procs : Migrating(p) /\ proc'[p] # proc[p] /\ proc'[p].op = proc[p].op]_vars

\* C35 witness: a Rollback removed rows and returned nil while the lock row
\* said locked.
C35_Witness ==
  \E p \in Procs :
    /\ proc[p].op = "Rollback" /\ proc[p].pc = "done" /\ proc[p].ret.kind = "ok"
    /\ lockRows = 1 /\ lock.locked
    /\ ledger # proc[p].startLedger

\* The (name, batch) pairs of a ledger.
NameBatch(rows) == {<<r.name, r.batch>> : r \in rows}

\* A Migrate followed by a Rollback that returned nil.
TripDone(p) ==
  /\ proc[p].cmd = "trip" /\ proc[p].call = 2
  /\ proc[p].pc = "done" /\ proc[p].ret.kind = "ok"

\* C39: when a Migrate that recorded at least one file is followed by a
\* Rollback that returns nil, the (name, batch) pairs of the ledger are those
\* of before the Migrate; when the Migrate recorded none, they are those of
\* before the Migrate without the highest batch.
C39_RoundTrip ==
  \A p \in Procs : TripDone(p) =>
    IF proc[p].steps > 0
      THEN NameBatch(ledger) = NameBatch(proc[p].cmdLedger)
      ELSE NameBatch(ledger) =
             NameBatch({r \in proc[p].cmdLedger : r.batch # getLastBatch(proc[p].cmdLedger)})

\* C39 witness: a Migrate added a row to a ledger that had one, and the
\* Rollback after it returned nil.
C39_Witness ==
  \E p \in Procs :
    /\ TripDone(p)
    /\ proc[p].steps > 0
    /\ proc[p].cmdLedger # {}
    /\ proc[p].startLedger # proc[p].cmdLedger

\* A tracked run in its transaction for a file.
InSeedTx(p) == sproc[p].pc \in {"s_exec", "s_commit"}

\* C36: however two tracked runs interleave, every statement of a seed file
\* is committed at most once and the seeders table holds at most one row for
\* a name; a run whose transaction is open for a file that has a committed
\* row meanwhile commits nothing more and, at its INSERT or at its commit,
\* returns an error.
C36_AtMostOnce ==
  /\ [](/\ \A st \in AllSeedStmts : seedExec[st] <= 1
        /\ \A r1, r2 \in seeders : r1.name = r2.name => r1 = r2)
  /\ [][\A p \in Procs :
          (InSeedTx(p) /\ sproc[p].files[sproc[p].i] \in getSeeded(seeders)
             /\ sproc'[p] # sproc[p]) =>
            /\ seedExec' = seedExec /\ seeders' = seeders
            /\ (sproc[p].si > Len(sproc[p].stmts) =>
                  sproc'[p].pc = "done" /\ sproc'[p].ret.kind \in {"record", "commit"})]_vars

\* C36 witness: two runs had the same pending file in their transactions; one
\* committed it, the other returned the error of its INSERT or commit.
C36_Witness ==
  \E p, q \in Procs :
    /\ p # q
    /\ sproc[p].pc = "done" /\ sproc[p].ret.kind \in {"record", "commit"}
    /\ sproc[p].ret.file = <<"a">>
    /\ <<"a">> \notin getSeeded(sproc[p].startSeeders)
    /\ <<"a">> \notin getSeeded(sproc[q].startSeeders)
    /\ sproc[q].op \in TrackedOps /\ sproc[q].pc \in {"s_loop", "done"}
    /\ <<"a">> \in getSeeded(seeders)
    /\ \A st \in AllSeedStmts : seedExec[st] = IF st \in SeedStmts(<<"a">>) THEN 1 ELSE 0

====
